---- MODULE Spec2Model ----
(***************************************************************************)
(* Model of the ticket information-gathering pipeline of jira-a2a:         *)
(* the TaskCodec decoders, the analysis engine (LLM and heuristic),        *)
(* and the Process handlers of the InformationGatheringAgent and the       *)
(* JiraRetrievalAgent with the status updates they emit.                   *)
(*                                                                         *)
(* The repository keeps several historical variants of the same handler.   *)
(* They are modelled side by side and selected by the variable `variant`:  *)
(*   IGA  unnamed/part_002:58-183      LLM with heuristic analysis         *)
(*   IGB  internal/agents/infogathering.go:428-500   LLM only              *)
(*   IGC  internal/agents/infogathering.go:37-121    Jira client variant   *)
(*   JR1  internal/agents/jiraretrieval.go:160-185   Process               *)
(*   JR2  internal/agents/jiraretrieval.go:283-405   Process +             *)
(*                                         ProcessInfoGatheredTask         *)
(***************************************************************************)
EXTENDS Integers, Sequences, FiniteSets, TLC

(***************************************************************************)
(* JSON values.  A document is a function from the keys that are present   *)
(* to values; a value carries its JSON type t ("s" string, "n" number,     *)
(* "o" object), its string rendering s and, for an object, its members o.  *)
(* A string whose content is itself the JSON text of a document is a       *)
(* string value with s = JsonText and o = that document.                   *)
(***************************************************************************)
NoDoc == [k \in {} |-> ""]

JsonText == "{json}"

Str(s) == [t |-> "s", s |-> s, o |-> NoDoc]

Num(s) == [t |-> "n", s |-> s, o |-> NoDoc]

Obj(d) == [t |-> "o", s |-> "map[]", o |-> d]

JStr(d) == [t |-> "s", s |-> JsonText, o |-> d]

Merge(a, b) == [k \in (DOMAIN a) \cup (DOMAIN b) |-> IF k \in DOMAIN b THEN b[k] ELSE a[k]]

One(k, v) == [x \in {k} |-> v]

(***************************************************************************)
(* TicketAvailableTask.  Status stands for the scalar fields of the        *)
(* extended struct (status, reporter, assignee, priority, created,         *)
(* updated), which are all handled alike.                                  *)
(***************************************************************************)
EmptyTask == [TicketID |-> "", Summary |-> "", Description |-> "", Status |-> "", Metadata |-> NoDoc]

V1Tags == {"ticketId", "summary", "metadata"}

V2Tags == {"ticketId", "summary", "description", "status", "metadata"}

\* fmt.Sprintf("%v", value) / the string itself
Render(v) == v.s

\* json.Unmarshal of one string field: an absent key leaves the field, a
\* string sets it, another type is an UnmarshalTypeError and leaves it.
SetStr(doc, tags, key, cur) ==
  IF key \in tags /\ key \in DOMAIN doc /\ doc[key].t = "s" THEN doc[key].s ELSE cur

BadStr(doc, tags, key) == key \in tags /\ key \in DOMAIN doc /\ doc[key].t # "s"

StrEntries(m) == [k \in DOMAIN m |-> IF m[k].t = "s" THEN m[k].s ELSE ""]

BadMeta(doc) ==
  "metadata" \in DOMAIN doc /\
     (doc["metadata"].t # "o" \/ \E k \in DOMAIN doc["metadata"].o : doc["metadata"].o[k].t # "s")

SetMeta(doc, cur) ==
  IF "metadata" \in DOMAIN doc /\ doc["metadata"].t = "o"
  THEN Merge(cur, StrEntries(doc["metadata"].o))
  ELSE cur

\* json.Unmarshal(data, task) for a JSON object: fields are written in place,
\* a type error is reported after the other fields were written.
Unmarshal(doc, task, tags) ==
  [err  |-> BadStr(doc, tags, "ticketId") \/ BadStr(doc, tags, "summary")
              \/ BadStr(doc, tags, "description") \/ BadStr(doc, tags, "status")
              \/ BadMeta(doc),
   task |-> [TicketID    |-> SetStr(doc, tags, "ticketId", task.TicketID),
             Summary     |-> SetStr(doc, tags, "summary", task.Summary),
             Description |-> SetStr(doc, tags, "description", task.Description),
             Status      |-> SetStr(doc, tags, "status", task.Status),
             Metadata    |-> SetMeta(doc, task.Metadata)]]

\* json.Marshal(task): every string field is written, metadata is omitempty.
Marshal(task, tags) ==
  LET base == [k \in tags \ {"metadata"} |->
                 Str(CASE k = "ticketId" -> task.TicketID
                       [] k = "summary" -> task.Summary
                       [] k = "description" -> task.Description
                       [] OTHER -> task.Status)]
  IN IF task.Metadata = NoDoc THEN base
     ELSE Merge(base, One("metadata", Obj([k \in DOMAIN task.Metadata |-> Str(task.Metadata[k])])))

(***************************************************************************)
(* Message parts.  kind is "text" (TextPart) or "data" (DataPart); dtype   *)
(* is the dynamic type of DataPart.Data ("bytes", "string", "map",         *)
(* "struct") or "text"; json says whether the text / bytes / string is the *)
(* JSON text of an object, and doc is that object (or the map / the        *)
(* marshalled struct).                                                     *)
(***************************************************************************)
TextPart(d) == [kind |-> "text", dtype |-> "text", json |-> TRUE, doc |-> d]

ProsePart == [kind |-> "text", dtype |-> "text", json |-> FALSE, doc |-> NoDoc]

DataPart(ty, d) == [kind |-> "data", dtype |-> ty, json |-> TRUE, doc |-> d]

\* internal/agents/infogathering.go getStringValue: the first key of keys
\* that is present with a string value (an empty one included)
RECURSIVE getStringValue(_, _)
getStringValue(data, keys) ==
  IF keys = << >> THEN [ok |-> FALSE, v |-> ""]
  ELSE IF Head(keys) \in DOMAIN data /\ data[Head(keys)].t = "s"
       THEN [ok |-> TRUE, v |-> data[Head(keys)].s]
       ELSE getStringValue(data, Tail(keys))

\* internal/common GetStringValue: the first key of keys that is present
\* with a non-empty string value
RECURSIVE GetStringValue(_, _)
GetStringValue(data, keys) ==
  IF keys = << >> THEN [ok |-> FALSE, v |-> ""]
  ELSE IF Head(keys) \in DOMAIN data /\ data[Head(keys)].t = "s" /\ data[Head(keys)].s # ""
       THEN [ok |-> TRUE, v |-> data[Head(keys)].s]
       ELSE GetStringValue(data, Tail(keys))

SubObj(data, key) == IF key \in DOMAIN data /\ data[key].t = "o" THEN data[key].o ELSE NoDoc

HasObj(data, key) == key \in DOMAIN data /\ data[key].t = "o"

MetaKeysB == {"priority", "status", "issueType", "reporter", "assignee", "created", "updated"}

\* internal/agents/infogathering.go extractFromMap
extractFromMap(data, task) ==
  LET id0   == getStringValue(data, <<"ticketId", "ticket_id", "id">>)
      sum0  == getStringValue(data, <<"summary", "title", "name">>)
      desc0 == getStringValue(data, <<"description", "desc", "content">>)
      t1    == IF id0.ok THEN id0.v ELSE task.TicketID
      s1    == IF sum0.ok THEN sum0.v ELSE task.Summary
      d1    == IF desc0.ok THEN desc0.v ELSE task.Description
      issue == SubObj(data, "issue")
      hasI  == HasObj(data, "issue")
      idI   == getStringValue(issue, <<"id", "key">>)
      t2    == IF hasI /\ t1 = "" /\ idI.ok THEN idI.v ELSE t1
      flds  == SubObj(issue, "fields")
      hasF  == hasI /\ HasObj(issue, "fields")
      sumF  == getStringValue(flds, <<"summary">>)
      s2    == IF hasF /\ s1 = "" /\ sumF.ok THEN sumF.v ELSE s1
      descF == getStringValue(flds, <<"description">>)
      d2    == IF hasF /\ d1 = "" /\ descF.ok THEN descF.v ELSE d1
      top   == [k \in {x \in MetaKeysB : x \in DOMAIN data /\ data[x].t = "s"} |-> data[k].s]
      md    == SubObj(data, "metadata")
      nest  == [k \in {x \in DOMAIN md : md[x].t = "s"} |-> md[k].s]
      m2    == Merge(Merge(task.Metadata, top), nest)
  IN [err  |-> t2 = "" \/ s2 = "",
      task |-> [TicketID |-> t2, Summary |-> s2, Description |-> d2,
                Status |-> task.Status, Metadata |-> m2]]

MetaKeysCommon == {"priority", "status", "assignee", "reporter", "type", "components"}

\* internal/common/data.go ExtractFromMap
ExtractFromMap(data, task) ==
  LET id0   == GetStringValue(data, <<"ticketId", "ticket_id", "id">>)
      sum0  == GetStringValue(data, <<"summary", "title", "name">>)
      desc0 == GetStringValue(data, <<"description", "desc", "body">>)
      top   == [k \in {x \in MetaKeysCommon : GetStringValue(data, <<x>>).ok} |-> data[k].s]
  IN IF ~id0.ok THEN [err |-> TRUE, task |-> task]
     ELSE IF ~sum0.ok THEN [err |-> TRUE, task |-> [task EXCEPT !.TicketID = id0.v]]
     ELSE LET t2 == [TicketID |-> id0.v, Summary |-> sum0.v,
                     Description |-> IF desc0.ok THEN desc0.v ELSE task.Description,
                     Status |-> task.Status,
                     Metadata |-> Merge(task.Metadata, top)]
          IN [err |-> ~(t2.TicketID # "" /\ t2.Summary # ""), task |-> t2]

(***************************************************************************)
(* TaskCodec decoders.  Each returns the set of outcomes [err, task] the   *)
(* code can produce (Go map iteration order is not fixed, so a decoder     *)
(* that ranges over a map can have more than one).                         *)
(***************************************************************************)
Valid(task) == task.TicketID # "" /\ task.Summary # ""

\* direct unmarshal, then the key-value fallback, on one JSON text
\* (infogathering.go:527-546 and 553-572)
TryJSON_B(p, task) ==
  LET u  == IF p.json THEN Unmarshal(p.doc, task, V2Tags) ELSE [err |-> TRUE, task |-> task]
      m  == extractFromMap(p.doc, u.task)
  IN IF ~u.err /\ Valid(u.task) THEN [done |-> TRUE, task |-> u.task]
     ELSE IF p.json THEN [done |-> ~m.err, task |-> m.task]
     ELSE [done |-> FALSE, task |-> u.task]

RECURSIVE extractTaskData_B(_, _, _)
extractTaskData_B(parts, i, task) ==
  IF i > Len(parts) THEN [err |-> TRUE, task |-> task]
  ELSE LET p == parts[i]
           r == IF p.kind = "data" /\ p.dtype # "bytes"
                THEN [done |-> FALSE, task |-> task]
                ELSE TryJSON_B(p, task)
       IN IF r.done THEN [err |-> FALSE, task |-> r.task]
          ELSE extractTaskData_B(parts, i + 1, r.task)

\* internal/common/data.go:29-50: json.Marshal(dp.Data) yields the object
\* for a map or a struct and a JSON string literal for a string or []byte
TryData_Common(p, task) ==
  LET isObj == p.dtype \in {"map", "struct"}
      u     == IF isObj THEN Unmarshal(p.doc, task, V2Tags) ELSE [err |-> TRUE, task |-> task]
      m     == ExtractFromMap(p.doc, u.task)
  IN IF ~u.err /\ Valid(u.task) THEN [done |-> TRUE, task |-> u.task]
     ELSE IF isObj THEN [done |-> ~m.err, task |-> m.task]
     ELSE [done |-> FALSE, task |-> u.task]

\* internal/common/data.go:53-75
TryText_Common(p, task) ==
  LET u == IF p.json THEN Unmarshal(p.doc, task, V2Tags) ELSE [err |-> TRUE, task |-> task]
      m == ExtractFromMap(p.doc, u.task)
  IN IF ~u.err /\ Valid(u.task) THEN [done |-> TRUE, task |-> u.task]
     ELSE IF p.json THEN [done |-> ~m.err, task |-> m.task]
     ELSE [done |-> FALSE, task |-> u.task]

RECURSIVE ExtractTicketData(_, _, _)
ExtractTicketData(parts, i, task) ==
  IF i > Len(parts) THEN [err |-> TRUE, task |-> task]
  ELSE LET p == parts[i]
           r == IF p.kind = "data" THEN TryData_Common(p, task) ELSE TryText_Common(p, task)
       IN IF r.done THEN [err |-> FALSE, task |-> r.task]
          ELSE ExtractTicketData(parts, i + 1, r.task)

\* unnamed/part_002:256-262 and 271-280
WithDefaults(task) ==
  [task EXCEPT !.TicketID = IF task.TicketID = "" THEN "UNKNOWN-ID" ELSE task.TicketID,
               !.Summary  = IF task.Summary = "" THEN "No summary available" ELSE task.Summary]

IdKeysA == {"id", "taskId", "ticketId"}

SumKeysA == {"title", "summary", "description"}

\* unnamed/part_002:238-252: every other key goes to the metadata, a nested
\* map flattened as key_nestedKey
FlatKeys(data, others) ==
  {<<k, "">> : k \in {x \in others : data[x].t # "o"}}
    \cup UNION {{<<k, n>> : n \in DOMAIN data[k].o} : k \in {x \in others : data[x].t = "o"}}

FlatMeta(data, others) ==
  LET ks == FlatKeys(data, others)
  IN [name \in {IF q[2] = "" THEN q[1] ELSE q[1] \o "_" \o q[2] : q \in ks} |->
        LET q == CHOOSE q \in ks : name = (IF q[2] = "" THEN q[1] ELSE q[1] \o "_" \o q[2])
        IN IF q[2] = "" THEN Render(data[q[1]]) ELSE Render(data[q[1]].o[q[2]])]

\* unnamed/part_002:207-265, the DataPart holds a map
MapOutcomes_A(data) ==
  LET ids    == IdKeysA \cap DOMAIN data
      sums   == SumKeysA \cap DOMAIN data
      idVals == IF ids = {} THEN {""} ELSE {Render(data[k]) : k \in ids}
      smVals == IF sums = {} THEN {""} ELSE {Render(data[k]) : k \in sums}
      md     == SubObj(data, "metadata")
      nest   == [k \in DOMAIN md |-> Render(md[k])]
      top    == FlatMeta(data, (DOMAIN data) \ (IdKeysA \cup SumKeysA \cup {"metadata"}))
  IN {[err |-> FALSE,
       task |-> WithDefaults([TicketID |-> i, Summary |-> s, Description |-> "",
                              Status |-> "", Metadata |-> m])] :
        <<i, s, m>> \in idVals \X smVals \X {Merge(top, nest), Merge(nest, top)}}

DataParts(parts) == {i \in 1..Len(parts) : parts[i].kind = "data"}

\* unnamed/part_002:186-292: only the first DataPart is looked at
extractTaskData_A(parts) ==
  IF DataParts(parts) = {} THEN {[err |-> TRUE, task |-> EmptyTask]}
  ELSE LET p == parts[CHOOSE i \in DataParts(parts) : \A j \in DataParts(parts) : i <= j]
           u == Unmarshal(p.doc, EmptyTask, V1Tags)
       IN IF p.dtype = "map" THEN MapOutcomes_A(p.doc)
          ELSE IF p.dtype = "struct" /\ ~u.err THEN {[err |-> FALSE, task |-> WithDefaults(u.task)]}
          ELSE {[err |-> TRUE, task |-> u.task]}

\* internal/agents/infogathering.go:143-171: the values of the wrapper that
\* end the search: a string holding JSON that unmarshals, or a map with
\* string ticketId and summary
EndsC(v) ==
  \/ v.t = "s" /\ v.s = JsonText /\ ~Unmarshal(v.o, EmptyTask, V1Tags).err
  \/ v.t = "o" /\ getStringValue(v.o, <<"ticketId">>).ok /\ getStringValue(v.o, <<"summary">>).ok

\* a map with a string ticketId but no string summary only writes TicketID
TouchesC(v) ==
  v.t = "o" /\ getStringValue(v.o, <<"ticketId">>).ok /\ ~getStringValue(v.o, <<"summary">>).ok

ApplyEndC(v, task) ==
  IF v.t = "s" THEN Unmarshal(v.o, task, V1Tags).task
  ELSE [task EXCEPT !.TicketID = v.o["ticketId"].s,
                    !.Summary = v.o["summary"].s,
                    !.Metadata = IF HasObj(v.o, "metadata")
                                 THEN LET md == v.o["metadata"].o
                                      IN [k \in {x \in DOMAIN md : md[x].t = "s"} |-> md[k].s]
                                 ELSE task.Metadata]

\* the outcomes of one TextPart: [done, task]
TryText_C(p, task) ==
  LET u     == IF p.json THEN Unmarshal(p.doc, task, V1Tags) ELSE [err |-> TRUE, task |-> task]
      vals  == {p.doc[k] : k \in DOMAIN p.doc}
      ends  == {v \in vals : EndsC(v)}
      pre   == {u.task} \cup {[u.task EXCEPT !.TicketID = v.o["ticketId"].s] : v \in {x \in vals : TouchesC(x)}}
      last  == IF {x \in vals : TouchesC(x)} = {} THEN {u.task}
               ELSE {[u.task EXCEPT !.TicketID = v.o["ticketId"].s] : v \in {x \in vals : TouchesC(x)}}
  IN IF ~u.err THEN {[done |-> TRUE, task |-> u.task]}
     ELSE IF ~p.json THEN {[done |-> FALSE, task |-> task]}
     ELSE IF ends # {} THEN {[done |-> TRUE, task |-> ApplyEndC(v, t0)] : <<v, t0>> \in ends \X pre}
     ELSE {[done |-> FALSE, task |-> t0] : t0 \in last}

RECURSIVE extractTaskData_C(_, _, _)
extractTaskData_C(parts, i, task) ==
  IF i > Len(parts) THEN {[err |-> TRUE, task |-> task]}
  ELSE IF parts[i].kind # "text" THEN extractTaskData_C(parts, i + 1, task)
  ELSE UNION {IF r.done THEN {[err |-> FALSE, task |-> r.task]}
              ELSE extractTaskData_C(parts, i + 1, r.task) : r \in TryText_C(parts[i], task)}

Decode(dec, parts) ==
  CASE dec = "A" -> extractTaskData_A(parts)
    [] dec = "B" -> IF Len(parts) = 0 THEN {[err |-> TRUE, task |-> EmptyTask]}
                    ELSE {extractTaskData_B(parts, 1, EmptyTask)}
    [] dec = "C" -> extractTaskData_C(parts, 1, EmptyTask)
    [] OTHER     -> IF Len(parts) = 0 THEN {[err |-> TRUE, task |-> EmptyTask]}
                    ELSE {ExtractTicketData(parts, 1, EmptyTask)}

(***************************************************************************)
(* Strings.                                                                *)
(***************************************************************************)
UpperChars == "ABCDEFGHIJKLMNOPQRSTUVWXYZ"

LowerChars == "abcdefghijklmnopqrstuvwxyz"

LowerChar(c) ==
  IF \E i \in 1..26 : SubSeq(UpperChars, i, i) = c
  THEN LET i == CHOOSE i \in 1..26 : SubSeq(UpperChars, i, i) = c IN SubSeq(LowerChars, i, i)
  ELSE c

\* strings.ToLower
RECURSIVE ToLower(_)
ToLower(s) == IF Len(s) = 0 THEN "" ELSE LowerChar(SubSeq(s, 1, 1)) \o ToLower(SubSeq(s, 2, Len(s)))

\* strings.Contains
Contains(s, sub) == \E i \in 1..(Len(s) - Len(sub) + 1) : SubSeq(s, i, i + Len(sub) - 1) = sub

\* the set of the words of strings.Fields(s)
Fields(s) ==
  {SubSeq(s, i, j) : <<i, j>> \in
     {q \in (1..Len(s)) \X (1..Len(s)) :
        /\ q[1] <= q[2]
        /\ ~Contains(SubSeq(s, q[1], q[2]), " ")
        /\ (q[1] = 1 \/ SubSeq(s, q[1] - 1, q[1] - 1) = " ")
        /\ (q[2] = Len(s) \/ SubSeq(s, q[2] + 1, q[2] + 1) = " ")}}

\* all orders in which a Go map with key set S can be ranged over
Orders(S) == {f \in [1..Cardinality(S) -> S] : \A i, j \in DOMAIN f : f[i] = f[j] => i = j}

(***************************************************************************)
(* LLM responses.  A response text is a sequence of tokens: an opening     *)
(* brace, a closing brace, prose, or one "key":value member of an object   *)
(* (the commas between members are implied).                               *)
(***************************************************************************)
Open == [c |-> "{", k |-> "", v |-> Str("")]

Close == [c |-> "}", k |-> "", v |-> Str("")]

Prose == [c |-> "p", k |-> "", v |-> Str("")]

Member(k, v) == [c |-> "m", k |-> k, v |-> v]

\* json.Unmarshal of the token sequence toks[i..]: an object is an opening
\* brace, members, a closing brace; next is the index after the object
RECURSIVE ParseMembers(_, _, _)
ParseMembers(toks, i, acc) ==
  IF i > Len(toks) THEN [ok |-> FALSE, next |-> i, doc |-> acc]
  ELSE IF toks[i].c = "}" THEN [ok |-> TRUE, next |-> i + 1, doc |-> acc]
  ELSE IF toks[i].c = "m" THEN ParseMembers(toks, i + 1, Merge(acc, One(toks[i].k, toks[i].v)))
  ELSE [ok |-> FALSE, next |-> i, doc |-> acc]

ParseObject(toks) ==
  IF Len(toks) = 0 \/ toks[1].c # "{" THEN [ok |-> FALSE, doc |-> NoDoc]
  ELSE LET r == ParseMembers(toks, 2, NoDoc)
       IN [ok |-> r.ok /\ r.next = Len(toks) + 1, doc |-> r.doc]

Index(text, c) ==
  IF \E i \in 1..Len(text) : text[i].c = c
  THEN CHOOSE i \in 1..Len(text) : text[i].c = c /\ \A j \in 1..(i - 1) : text[j].c # c
  ELSE 0

LastIndex(text, c) ==
  IF \E i \in 1..Len(text) : text[i].c = c
  THEN CHOOSE i \in 1..Len(text) : text[i].c = c /\ \A j \in (i + 1)..Len(text) : text[j].c # c
  ELSE 0

\* unnamed/part_002:528-551.  text[start : end+1] with end < start is a
\* slice-bounds panic.
extractJSON_A(text) ==
  LET start == Index(text, "{")
      end   == LastIndex(text, "}")
      span  == SubSeq(text, start, end)
  IN IF start = 0 THEN [st |-> "err", doc |-> NoDoc]
     ELSE IF end = 0 THEN [st |-> "err", doc |-> NoDoc]
     ELSE IF end < start THEN [st |-> "panic", doc |-> NoDoc]
     ELSE IF ~ParseObject(span).ok THEN [st |-> "err", doc |-> NoDoc]
     ELSE [st |-> "ok", doc |-> ParseObject(span).doc]

\* internal/agents/infogathering.go:832-855
extractJSON_B(text) ==
  LET start == Index(text, "{")
      end   == LastIndex(text, "}")
      span  == SubSeq(text, start, end)
  IN IF start = 0 THEN [st |-> "err", doc |-> NoDoc]
     ELSE IF end = 0 \/ end <= start THEN [st |-> "err", doc |-> NoDoc]
     ELSE IF ~ParseObject(span).ok THEN [st |-> "err", doc |-> NoDoc]
     ELSE [st |-> "ok", doc |-> ParseObject(span).doc]

\* internal/common ExtractJSON (unnamed/part_009:21-47): the greedy match of
\* \{.*\} is the text from the first { to the last } after it; the text
\* alphabet has no [, so the array pattern finds nothing
ExtractJSON(text) ==
  LET start    == Index(text, "{")
      end      == LastIndex(text, "}")
      objMatch == IF start = 0 \/ end < start THEN << >> ELSE SubSeq(text, start, end)
  IN IF objMatch # << >> /\ ParseObject(objMatch).ok
     THEN [st |-> "ok", doc |-> ParseObject(objMatch).doc]
     ELSE [st |-> "err", doc |-> NoDoc]

Levels == {"high", "medium", "low"}

\* normalizeRiskLevel with a default branch that returns its input
normalizeRiskLevel_Keep(level) ==
  LET l == ToLower(level)
  IN IF l \in {"high", "critical", "severe", "important"} THEN "high"
     ELSE IF l \in {"medium", "moderate", "normal"} THEN "medium"
     ELSE IF l \in {"low", "minor", "trivial"} THEN "low"
     ELSE level

\* unnamed/part_002:554-567
normalizeRiskLevel(level) ==
  LET l == ToLower(level)
  IN IF l \in {"high", "critical", "severe", "important"} THEN "high"
     ELSE IF l \in {"medium", "moderate", "normal"} THEN "medium"
     ELSE IF l \in {"low", "minor", "trivial"} THEN "low"
     ELSE "medium"

\* unnamed/part_002:570-583
normalizePriority(priority) ==
  LET l == ToLower(priority)
  IN IF l \in {"high", "critical", "urgent", "important"} THEN "high"
     ELSE IF l \in {"medium", "normal", "moderate"} THEN "medium"
     ELSE IF l \in {"low", "minor", "trivial"} THEN "low"
     ELSE "medium"

(***************************************************************************)
(* AnalysisResult.  TechnicalAnalysis stands for the free-text fields      *)
(* (TechnicalAnalysis, BusinessImpact, NextSteps), which are copied alike; *)
(* Confidence is in tenths.                                                *)
(***************************************************************************)
NoAnalysis == [KeyThemes |-> << >>, RiskLevel |-> "", Priority |-> "", Suggestion |-> "",
               TechnicalAnalysis |-> "", RecommendedPriority |-> "", LLMUsed |-> FALSE,
               Confidence |-> -1]

StrOf(doc, key) == IF key \in DOMAIN doc /\ doc[key].t = "s" THEN doc[key].s ELSE ""

HasStr(doc, key) == key \in DOMAIN doc /\ doc[key].t = "s"

\* unnamed/part_002:434-525
parseLLMResponse_A(response) ==
  LET j == extractJSON_A(response)
      d == j.doc
  IN IF j.st # "ok" THEN [st |-> j.st, result |-> NoAnalysis]
     ELSE [st |-> "ok",
           result |-> [KeyThemes |-> << >>,
                       RiskLevel |-> IF HasStr(d, "riskLevel") THEN normalizeRiskLevel(d["riskLevel"].s) ELSE "",
                       Priority |-> IF HasStr(d, "priority") THEN normalizePriority(d["priority"].s) ELSE "",
                       Suggestion |-> StrOf(d, "suggestion"),
                       TechnicalAnalysis |-> StrOf(d, "technicalAnalysis"),
                       RecommendedPriority |-> IF HasStr(d, "recommendedPriority")
                                               THEN normalizePriority(d["recommendedPriority"].s) ELSE "",
                       LLMUsed |-> TRUE,
                       Confidence |-> 9]]

\* the LLM collaborator answers with an error or with a text
LLMError == [err |-> TRUE, text |-> << >>]

LLMText(toks) == [err |-> FALSE, text |-> toks]

\* unnamed/part_002:342-362
analyzeWithLLM(reply) ==
  IF reply.err THEN [st |-> "err", result |-> NoAnalysis]
  ELSE LET r == parseLLMResponse_A(reply.text)
       IN IF r.st # "ok" THEN r ELSE [st |-> "ok", result |-> [r.result EXCEPT !.LLMUsed = TRUE]]

ThemeOf(word) ==
  IF \E x \in {"bug", "fix", "issue", "error", "problem"} : Contains(word, x) THEN "problem"
  ELSE IF \E x \in {"feature", "add", "new", "create"} : Contains(word, x) THEN "new_functionality"
  ELSE IF \E x \in {"improve", "enhance", "update", "upgrade"} : Contains(word, x) THEN "improvement"
  ELSE IF \E x \in {"document", "doc", "guide", "manual"} : Contains(word, x) THEN "documentation"
  ELSE IF \E x \in {"research", "investigate", "analyze", "explore"} : Contains(word, x) THEN "research"
  ELSE ""

IsPriorityKey(key) ==
  \E x \in {"priority", "importance", "urgency"} : Contains(ToLower(key), x)

\* RiskOfPriority with the default of normalizeRiskLevel
RiskOfPriority_Medium(priority) ==
  IF \E x \in {"high", "critical", "urgent", "important"} : Contains(priority, x) THEN "high"
  ELSE IF \E x \in {"low", "minor", "trivial"} : Contains(priority, x) THEN "low"
  ELSE "medium"

RiskOfPriority(priority) ==
  IF \E x \in {"high", "critical", "urgent", "important"} : Contains(priority, x) THEN "high"
  ELSE IF \E x \in {"medium", "normal", "moderate"} : Contains(priority, x) THEN "medium"
  ELSE "low"

InSeq(x, seq) == \E i \in 1..Len(seq) : seq[i] = x

SuggestionOf(risk, themes) ==
  IF risk = "high" THEN "This is a high-priority item that should be addressed promptly."
  ELSE IF InSeq("problem", themes) THEN "This issue should be investigated to determine its impact."
  ELSE IF InSeq("new_functionality", themes) THEN "This new functionality should be evaluated for alignment with goals."
  ELSE IF InSeq("improvement", themes) THEN "This improvement could enhance existing functionality."
  ELSE "Review this item and assign appropriate resources."

\* unnamed/part_002:586-680: the set of results (the themes and the metadata
\* are ranged over in map order)
performBasicAnalysis(task) ==
  LET themes == {ThemeOf(w) : w \in Fields(ToLower(task.Summary))} \ {""}
      kts    == IF themes = {} THEN {<<"task">>} ELSE Orders(themes)
      pkeys  == {k \in DOMAIN task.Metadata : IsPriorityKey(k)}
      prios  == IF pkeys = {} THEN {"medium"} ELSE {ToLower(task.Metadata[k]) : k \in pkeys}
  IN {[KeyThemes |-> kt, RiskLevel |-> RiskOfPriority(pr), Priority |-> pr,
       Suggestion |-> SuggestionOf(RiskOfPriority(pr), kt),
       TechnicalAnalysis |-> "No detailed technical analysis available without LLM.",
       RecommendedPriority |-> pr, LLMUsed |-> FALSE, Confidence |-> 5] :
        <<kt, pr>> \in kts \X prios}

\* the result handed on when the LLM analysis fails (unnamed/part_002:323-334)
LLMFailedResult ==
  [KeyThemes |-> <<"error">>, RiskLevel |-> "unknown", Priority |-> "unknown",
   Suggestion |-> "LLM analysis failed", TechnicalAnalysis |-> "LLM analysis error",
   RecommendedPriority |-> "", LLMUsed |-> FALSE, Confidence |-> 0]

\* unnamed/part_002:313-339: the set of [st, result] outcomes
analyzeTicketInfo_A(llmClient, reply, task) ==
  IF llmClient
  THEN LET r == analyzeWithLLM(reply)
       IN IF r.st = "ok" THEN {r}
          ELSE IF r.st = "panic" THEN {r}
          ELSE {[st |-> "ok", result |-> LLMFailedResult]}
  ELSE {[st |-> "ok", result |-> a] : a \in performBasicAnalysis(task)}

\* internal/agents/infogathering.go:739-782: the analysis as a string map
parseLLMResponse_B(response) ==
  LET j == extractJSON_B(response)
  IN IF j.st # "ok" THEN [st |-> "err", result |-> NoDoc]
     ELSE [st |-> "ok", result |-> [k \in DOMAIN j.doc |-> Render(j.doc[k])]]

\* internal/agents/infogathering.go:670-695
analyzeTicketInfo_B(llmClient, reply) ==
  IF ~llmClient THEN [st |-> "err", result |-> NoDoc]
  ELSE IF reply.err THEN [st |-> "err", result |-> NoDoc]
  ELSE LET r == parseLLMResponse_B(reply.text)
       IN IF r.st # "ok" THEN r
          ELSE [st |-> "ok", result |-> Merge(r.result, One("LLMGenerated", "true"))]

(***************************************************************************)
(* InfoGatheredTask and its decoding by the JiraRetrievalAgent.            *)
(***************************************************************************)
EmptyInfo == [TicketID |-> "", CollectedFields |-> NoDoc, CommentURL |-> ""]

\* json.Unmarshal into models.InfoGatheredTask
UnmarshalInfo(doc, info) ==
  [err  |-> \/ "ticketId" \in DOMAIN doc /\ doc["ticketId"].t # "s"
            \/ "collectedFields" \in DOMAIN doc /\
                 (doc["collectedFields"].t # "o" \/
                    \E k \in DOMAIN doc["collectedFields"].o : doc["collectedFields"].o[k].t # "s"),
   info |-> [TicketID |-> IF HasStr(doc, "ticketId") THEN doc["ticketId"].s ELSE info.TicketID,
             CollectedFields |-> IF HasObj(doc, "collectedFields")
                                 THEN Merge(info.CollectedFields, StrEntries(doc["collectedFields"].o))
                                 ELSE info.CollectedFields,
             CommentURL |-> info.CommentURL]]

MarshalInfo(info) ==
  [k \in {"ticketId", "collectedFields", "commentUrl"} |->
     CASE k = "ticketId" -> Str(info.TicketID)
       [] k = "collectedFields" -> Obj([f \in DOMAIN info.CollectedFields |-> Str(info.CollectedFields[f])])
       [] OTHER -> Str(info.CommentURL)]

\* internal/common/data.go:130-170
RECURSIVE ExtractInfoGatheredTask(_, _, _)
ExtractInfoGatheredTask(parts, i, info) ==
  IF i > Len(parts) THEN [err |-> TRUE, info |-> info]
  ELSE LET p == parts[i]
           u == IF (p.kind = "data" /\ p.dtype \in {"map", "struct"}) \/ (p.kind = "text" /\ p.json)
                THEN UnmarshalInfo(p.doc, info)
                ELSE [err |-> TRUE, info |-> info]
       IN IF ~u.err /\ u.info.TicketID # "" THEN [err |-> FALSE, info |-> u.info]
          ELSE ExtractInfoGatheredTask(parts, i + 1, u.info)

TextParts(parts) == {i \in 1..Len(parts) : parts[i].kind = "text"}

\* internal/agents/jiraretrieval.go:283-320: the first TextPart is the payload
ParsePayload_JR2(parts) ==
  IF Len(parts) = 0 THEN [err |-> "empty message or no parts", info |-> EmptyInfo]
  ELSE IF TextParts(parts) = {} THEN [err |-> "no text part found in message", info |-> EmptyInfo]
  ELSE LET p == parts[CHOOSE i \in TextParts(parts) : \A j \in TextParts(parts) : i <= j]
           u == IF p.json THEN UnmarshalInfo(p.doc, EmptyInfo) ELSE [err |-> TRUE, info |-> EmptyInfo]
       IN IF ~u.err /\ u.info.TicketID # "" THEN [err |-> "", info |-> u.info]
          ELSE [err |-> "unknown task payload", info |-> u.info]

(***************************************************************************)
(* The Process handlers.  Each handler is a fixed sequence of steps; a     *)
(* step is a status update (UpdateStatus on the task handle, the status    *)
(* sink), a collaborator call or a computation.  fatal says whether an     *)
(* error of the step makes Process return err.                             *)
(***************************************************************************)
U(state, fatal, err) == [op |-> "UpdateStatus", arg |-> state, fatal |-> fatal, err |-> err]

S(op, fatal, err) == [op |-> op, arg |-> "", fatal |-> fatal, err |-> err]

\* Steps_IGA with the summary update emitting analyzing_ticket once more
Steps_IGA_Repeat ==
  << U("processing", TRUE, "failed to update status"),
     S("extract", TRUE, "failed to extract task data"),
     U("analyzing_ticket", TRUE, "failed to update status"),
     S("analyze", FALSE, ""),
     U("analyzing_ticket", FALSE, ""),
     S("AddArtifact", TRUE, "failed to record artifact"),
     U("completed", TRUE, "failed to complete task") >>

\* unnamed/part_002:58-183
Steps_IGA ==
  << U("processing", TRUE, "failed to update status"),
     S("extract", TRUE, "failed to extract task data"),
     U("analyzing_ticket", TRUE, "failed to update status"),
     S("analyze", FALSE, ""),
     U("generating_summary", FALSE, ""),
     S("AddArtifact", TRUE, "failed to record artifact"),
     U("completed", TRUE, "failed to complete task") >>

\* Steps_IGB with the analysis run before the processing update
Steps_IGB_Late ==
  << S("extract", TRUE, "failed to extract task data"),
     U("analyzing_ticket", TRUE, "failed to update status"),
     S("analyze", TRUE, "failed to analyze ticket"),
     U("processing", TRUE, "failed to update status"),
     S("summary", TRUE, "failed to generate summary"),
     S("AddArtifact", TRUE, "failed to record artifact"),
     U("completed", TRUE, "failed to complete task") >>

\* internal/agents/infogathering.go:428-500
Steps_IGB ==
  << U("processing", TRUE, "failed to update status"),
     S("extract", TRUE, "failed to extract task data"),
     U("analyzing_ticket", TRUE, "failed to update status"),
     S("analyze", TRUE, "failed to analyze ticket"),
     S("summary", TRUE, "failed to generate summary"),
     S("AddArtifact", TRUE, "failed to record artifact"),
     U("completed", TRUE, "failed to complete task") >>

\* internal/agents/infogathering.go:37-121
Steps_IGC ==
  << U("processing", TRUE, "failed to update status"),
     S("extract", TRUE, "failed to extract task data"),
     U("fetching_ticket_details", TRUE, "failed to update status"),
     S("GetTicket", TRUE, "failed to fetch ticket details"),
     U("analyzing_ticket", TRUE, "failed to update status"),
     S("analyze", FALSE, ""),
     U("posting_comment", TRUE, "failed to update status"),
     S("PostComment", TRUE, "failed to post comment"),
     S("AddArtifact", TRUE, "failed to record artifact"),
     U("completed", TRUE, "failed to complete task") >>

\* internal/agents/jiraretrieval.go:160-185
Steps_JR1 ==
  << S("extractInfo", TRUE, "invalid InfoGatheredTask"),
     S("PostComment", FALSE, ""),
     U("completed", TRUE, "status sink error") >>

\* Steps_JR2 with the posting_comment update checked like the processing one
Steps_JR2_Strict ==
  << S("findPayload", TRUE, ""),
     U("processing", TRUE, "failed to update status"),
     S("extractInfo", TRUE, "unknown task payload"),
     U("processing_info", FALSE, ""),
     U("posting_comment", TRUE, "failed to update status"),
     S("PostComment", FALSE, ""),
     S("AddArtifact", FALSE, ""),
     U("completed", TRUE, "status sink error") >>

\* internal/agents/jiraretrieval.go:283-405
Steps_JR2 ==
  << S("findPayload", TRUE, ""),
     U("processing", TRUE, "failed to update status"),
     S("extractInfo", TRUE, "unknown task payload"),
     U("processing_info", FALSE, ""),
     U("posting_comment", FALSE, ""),
     S("PostComment", FALSE, ""),
     S("AddArtifact", FALSE, ""),
     U("completed", TRUE, "status sink error") >>

\* internal/agents/jiraretrieval.go:94-157: handleWebhook and ProcessWebhook
Steps_WH1 ==
  << S("validate", TRUE, "rejected"),
     S("GetTicket", FALSE, ""),
     S("SendTasks", TRUE, "failed to send task") >>

\* Steps_WH2 going on after a failed ticket fetch
Steps_WH2_Fallback ==
  << S("validate", TRUE, "rejected"),
     S("GetTicket", FALSE, ""),
     S("SendTasks", FALSE, ""),
     S("mock", FALSE, "") >>

\* internal/agents/jiraretrieval.go:683-930: HandleWebhook, ProcessWebhook and
\* mockProcessInfoGathering, which runs when SendTasks failed
Steps_WH2 ==
  << S("validate", TRUE, "rejected"),
     S("GetTicket", TRUE, "failed to get ticket from Jira"),
     S("SendTasks", FALSE, ""),
     S("mock", FALSE, "") >>

\* Steps_WH3 with the comment posted once more after it was posted
Steps_WH3_Retry ==
  << S("validate", TRUE, "rejected"),
     S("GetTicket", TRUE, "failed to get ticket from Jira"),
     S("SendTasks", TRUE, "failed to send task to InfoGatheringAgent"),
     S("extractResponse", TRUE, "failed to extract InfoGatheredTask from response"),
     S("PostComment", TRUE, "failed to post comment to Jira"),
     S("PostComment", TRUE, "failed to post comment to Jira") >>

\* unnamed/part_003:1119-1165 and 617-783: HandleWebhook and ProcessWebhook
Steps_WH3 ==
  << S("validate", TRUE, "rejected"),
     S("GetTicket", TRUE, "failed to get ticket from Jira"),
     S("SendTasks", TRUE, "failed to send task to InfoGatheringAgent"),
     S("extractResponse", TRUE, "failed to extract InfoGatheredTask from response"),
     S("PostComment", TRUE, "failed to post comment to Jira") >>

Steps(v) ==
  CASE v = "IGA" -> Steps_IGA
    [] v = "IGB" -> Steps_IGB
    [] v = "IGC" -> Steps_IGC
    [] v = "JR1" -> Steps_JR1
    [] v = "WH1" -> Steps_WH1
    [] v = "WH2" -> Steps_WH2
    [] v = "WH3" -> Steps_WH3
    [] v = "LIB" -> << S("extract", TRUE, "could not extract ticket data from message") >>
    [] OTHER     -> Steps_JR2

DecoderOf(v) == CASE v = "IGA" -> "A" [] v = "IGB" -> "B" [] v = "LIB" -> "D" [] OTHER -> "C"

IGVariants == {"IGA", "IGB", "IGC"}

JRVariants == {"JR1", "JR2"}

WHVariants == {"WH1", "WH2", "WH3"}

(***************************************************************************)
(* Inputs of a run: the message of the task, whether an LLM client is      *)
(* configured, and, chosen when the collaborator is called, its answer.    *)
(***************************************************************************)
MaxReplyLen == 3

TicketIDs == {"", "PROJ-1"}

Summaries == {"", "Quarterly report", "Fix new login"}

Metas == {NoDoc, One("priority", "Critical")}

SentTasks ==
  {[EmptyTask EXCEPT !.TicketID = id, !.Summary = s, !.Metadata = m] :
     id \in TicketIDs, s \in Summaries, m \in Metas}

Carry(c, doc) == IF c = "text" THEN TextPart(doc) ELSE DataPart(c, doc)

Shapes == {"structured", "aliased", "string", "legacy"}

TopMeta(t) == [k \in DOMAIN t.Metadata |-> Str(t.Metadata[k])]

\* the four wire shapes of a TicketAvailableTask: the struct the producer
\* puts in a DataPart (a map once it crossed the wire), a key-value document
\* under alias keys, the JSON text as a string, the nested issue document
Encode(shape, t) ==
  CASE shape = "structured" -> DataPart("map", Marshal(t, V1Tags))
    [] shape = "aliased" ->
         DataPart("map", Merge(Merge(One("id", Str(t.TicketID)), One("title", Str(t.Summary))),
                               TopMeta(t)))
    [] shape = "string" -> DataPart("string", Marshal(t, V1Tags))
    [] OTHER ->
         DataPart("map", Merge(One("issue", Obj(Merge(One("key", Str(t.TicketID)),
                                                      One("fields", Obj(One("summary", Str(t.Summary))))))),
                               TopMeta(t)))

IGMessages ==
  {<< >>, <<ProsePart>>} \cup
  {<<Carry(c, Marshal(t, V1Tags))>> : c \in {"text", "bytes"}, t \in SentTasks} \cup
  {<<Encode(sh, t)>> : sh \in Shapes, t \in SentTasks} \cup
  \* priorities outside the keyword buckets of normalizeRiskLevel
  {<<Encode("structured", [EmptyTask EXCEPT !.TicketID = "PROJ-1", !.Summary = "Quarterly report",
                                            !.Metadata = One("priority", pr)])>> :
     pr \in {"Urgent", "Blocker"}} \cup
  \* an empty summary beside a title; alias keys beside a nested issue; the
  \* nested issue document as text; a part without summary before a full one
  {<<TextPart(Merge(Marshal([EmptyTask EXCEPT !.TicketID = "PROJ-1"], V1Tags),
                    One("title", Str("Fix new login"))))>>,
   <<TextPart([k \in {"id", "title", "content", "issue"} |->
                CASE k = "id" -> Str("PROJ-1")
                  [] k = "title" -> Str("Fix new login")
                  [] k = "content" -> Str("Steps")
                  [] OTHER -> Obj(Merge(One("key", Str("OTHER-2")),
                                        One("fields", Obj(One("summary", Str("Other"))))))])>>,
   <<TextPart(Encode("legacy", [EmptyTask EXCEPT !.TicketID = "PROJ-1", !.Summary = "Fix new login"]).doc)>>,
   <<TextPart([k \in {"ticketId", "description", "metadata"} |->
                CASE k = "ticketId" -> Str("OLD-9")
                  [] k = "description" -> Str("Old text")
                  [] OTHER -> Obj(One("priority", Str("Critical")))]),
     TextPart(Marshal([EmptyTask EXCEPT !.TicketID = "PROJ-1", !.Summary = "Fix new login"], V1Tags))>>}

SentInfos ==
  {[EmptyInfo EXCEPT !.TicketID = id, !.CollectedFields = f] :
     id \in TicketIDs,
     f \in {NoDoc, One("Suggestion", "Review"),
            Merge(One("Suggestion", "Review"), One("RecommendedPriority", "High")),
            [k \in {"Suggestion", "TechnicalAnalysis", "BusinessImpact", "RiskLevel", "KeyThemes",
                    "Priority"} |->
               CASE k = "Suggestion" -> "Review"
                 [] k = "TechnicalAnalysis" -> "Token check"
                 [] k = "BusinessImpact" -> "Login blocked"
                 [] k = "RiskLevel" -> "high"
                 [] k = "KeyThemes" -> "login"
                 [] OTHER -> ""]}}

JRMessages ==
  {<< >>, <<ProsePart>>} \cup
  {<<Carry(c, MarshalInfo(i))>> : c \in {"text", "map"}, i \in SentInfos}

ReplyTokens ==
  {Open, Close, Prose, Member("riskLevel", Str("Critical")), Member("priority", Str("asap"))}

Texts(n) == UNION {[1..k -> ReplyTokens] : k \in 0..n}

Replies == {LLMError} \cup {LLMText(t) : t \in Texts(MaxReplyLen)}

\* models.JiraTicket, as far as analyzeTicket reads it
NoTicket == [Description |-> "", DueDate |-> "", Links |-> 0]

Tickets ==
  {[Description |-> d, DueDate |-> due, Links |-> n] :
     d \in {"", "Acceptance Criteria: none"}, due \in {"", "2025-06-01"}, n \in {0, 1}}

\* internal/agents/infogathering.go:201-236 (the collected fields)
analyzeTicket(t) ==
  Merge(Merge(IF t.Description = "" THEN NoDoc ELSE One("Description", "Present"),
              IF Contains(ToLower(t.Description), "acceptance criteria")
              THEN One("Acceptance Criteria", "Present") ELSE NoDoc),
        Merge(IF t.DueDate = "" THEN NoDoc ELSE One("Due Date", t.DueDate),
              IF t.Links = 0 THEN NoDoc ELSE One("Linked Tickets", "1 linked tickets")))

RECURSIVE Join(_, _)
Join(seq, i) ==
  IF i > Len(seq) THEN ""
  ELSE IF i = Len(seq) THEN seq[i]
  ELSE seq[i] \o ", " \o Join(seq, i + 1)

\* unnamed/part_002:130-160: CollectedFields of the InfoGatheredTask
CollectedOf(t, a) ==
  LET base == [k \in {"Summary", "Analysis", "Suggestion", "RiskLevel", "Priority", "KeyThemes",
                      "LLMGenerated", "TechnicalAnalysis"} |->
                 CASE k = "Summary" -> t.Summary
                   [] k = "Analysis" -> "Completed"
                   [] k = "Suggestion" -> a.Suggestion
                   [] k = "RiskLevel" -> a.RiskLevel
                   [] k = "Priority" -> a.Priority
                   [] k = "KeyThemes" -> Join(a.KeyThemes, 1)
                   [] k = "LLMGenerated" -> IF a.LLMUsed THEN "true" ELSE "false"
                   [] OTHER -> a.TechnicalAnalysis]
  IN IF a.RecommendedPriority # "" THEN Merge(base, One("RecommendedPriority", a.RecommendedPriority))
     ELSE base

(***************************************************************************)
(* The webhook endpoint of the JiraRetrievalAgent.  A request body is      *)
(* empty, not JSON at all, or a JSON document; of a document the model     *)
(* keeps the members one of the handlers reads: ticketId and event of the  *)
(* internal format, webhookEvent, issue.key and changelog.items of the     *)
(* Jira format.                                                            *)
(***************************************************************************)
MaxItems == 2

NoBody ==
  [kind |-> "empty", ticketId |-> "", event |-> "", issueKey |-> "", webhookEvent |-> "", items |-> << >>]

ChangelogItems ==
  {[field |-> "summary", toString |-> "A new summary."],
   [field |-> "status", toString |-> "Done"],
   [field |-> "summary", toString |-> "Reverted"]}

Bodies ==
  {NoBody, [NoBody EXCEPT !.kind = "garbage"]} \cup
  {[NoBody EXCEPT !.kind = "json", !.ticketId = id, !.event = e] :
     id \in TicketIDs, e \in {"", "created"}} \cup
  {[NoBody EXCEPT !.kind = "json", !.issueKey = id, !.webhookEvent = e, !.items = it] :
     id \in TicketIDs, e \in {"jira:issue_updated", "sprint:started:late", "sprint_closed"},
     it \in UNION {[1..k -> ChangelogItems] : k \in 0..MaxItems}}

Requests ==
  {[method |-> m, ctype |-> c, body |-> b] :
     m \in {"POST", "GET"}, c \in {"application/json; charset=utf-8", "text/plain"}, b \in Bodies}

NoRequest == [method |-> "", ctype |-> "", body |-> NoBody]

\* internal/jira/webhook.go:149-159
EmptyWebhookRequest ==
  [TicketID |-> "", Event |-> "", ProjectKey |-> "", WebhookName |-> "", Changes |-> NoDoc]

\* strings.Split(s, sep)[0] and, when sep occurs, strings.Split(s, sep)[1]
SplitPart(s, sep, n) ==
  LET At(t) == IF Contains(t, sep)
               THEN CHOOSE i \in 1..Len(t) : SubSeq(t, i, i) = sep /\ ~Contains(SubSeq(t, 1, i - 1), sep)
               ELSE Len(t) + 1
      rest == SubSeq(s, At(s) + 1, Len(s))
  IN IF n = 0 THEN SubSeq(s, 1, At(s) - 1) ELSE SubSeq(rest, 1, At(rest) - 1)

\* getEventTypeFromWebhookEvent returning all the text after the first colon
getEventTypeFromWebhookEvent_Rest(webhookEvent) ==
  CASE webhookEvent = "jira:issue_created" -> "created"
    [] webhookEvent = "jira:issue_updated" -> "updated"
    [] webhookEvent = "jira:issue_commented" -> "commented"
    [] webhookEvent = "jira:issue_deleted" -> "deleted"
    [] OTHER -> IF Contains(webhookEvent, ":")
                THEN SubSeq(webhookEvent, Len(SplitPart(webhookEvent, ":", 0)) + 2, Len(webhookEvent))
                ELSE webhookEvent

\* internal/jira/webhook.go:128-145
getEventTypeFromWebhookEvent(webhookEvent) ==
  CASE webhookEvent = "jira:issue_created" -> "created"
    [] webhookEvent = "jira:issue_updated" -> "updated"
    [] webhookEvent = "jira:issue_commented" -> "commented"
    [] webhookEvent = "jira:issue_deleted" -> "deleted"
    [] OTHER -> IF Contains(webhookEvent, ":") THEN SplitPart(webhookEvent, ":", 1) ELSE webhookEvent

\* ChangesOf keeping the first item of a field instead of the last
ChangesOf_First(items, i, acc) ==
  LET First(f) == CHOOSE j \in i..Len(items) :
                    items[j].field = f /\ \A k \in i..(j - 1) : items[k].field # f
  IN Merge(acc, [f \in {items[j].field : j \in i..Len(items)} |-> items[First(f)].toString])

\* internal/jira/webhook.go:98-103: Changes[item.Field] = item.ToString
RECURSIVE ChangesOf(_, _, _)
ChangesOf(items, i, acc) ==
  IF i > Len(items) THEN acc
  ELSE ChangesOf(items, i + 1, Merge(acc, One(items[i].field, items[i].toString)))

\* internal/jira/webhook.go:68-125
TransformJiraWebhook(payload) ==
  IF payload.kind # "json" THEN [err |-> TRUE, req |-> EmptyWebhookRequest]
  ELSE [err |-> FALSE,
        req |-> [TicketID    |-> payload.issueKey,
                 Event       |-> getEventTypeFromWebhookEvent(payload.webhookEvent),
                 ProjectKey  |-> SplitPart(payload.issueKey, "-", 0),
                 WebhookName |-> payload.webhookEvent,
                 Changes     |-> ChangesOf(payload.items, 1, NoDoc)]]

\* json.Unmarshal(body, &req) into the WebhookRequest
UnmarshalWebhookRequest(body) ==
  IF body.kind # "json" THEN [err |-> TRUE, req |-> EmptyWebhookRequest]
  ELSE [err |-> FALSE,
        req |-> [EmptyWebhookRequest EXCEPT !.TicketID = body.ticketId, !.Event = body.event]]

\* the checks of the HTTP handler before ProcessWebhook: status 0 when the
\* request passed them all
Validate(v, r) ==
  LET Reject(code) == [status |-> code, req |-> EmptyWebhookRequest]
      t == TransformJiraWebhook(r.body)
      u == UnmarshalWebhookRequest(r.body)
  IN CASE v = "WH1" ->
            IF r.method # "POST" THEN Reject(405)
            ELSE IF t.err THEN Reject(400)
            ELSE [status |-> 0, req |-> t.req]
       [] v = "WH2" ->
            IF r.method # "POST" THEN Reject(405)
            ELSE IF ~Contains(r.ctype, "application/json") THEN Reject(415)
            ELSE IF r.body.kind = "empty" THEN Reject(400)
            ELSE IF u.err THEN Reject(400)
            ELSE IF u.req.TicketID = "" THEN Reject(400)
            ELSE IF u.req.Event = "" THEN Reject(400)
            ELSE [status |-> 0, req |-> u.req]
       [] OTHER ->
            IF r.method # "POST" THEN Reject(405)
            ELSE IF u.err THEN Reject(400)
            ELSE IF u.req.TicketID = "" THEN Reject(400)
            ELSE [status |-> 0, req |-> u.req]

NoResponse == [status |-> 0, keys |-> {}]

\* the response: returnJSONError and the JSON success body of
\* jiraretrieval.go:683-778, plain text (no keys) in the other handlers
Respond(v, status) ==
  [status |-> status,
   keys   |-> IF v # "WH2" THEN {}
              ELSE IF status = 200 THEN {"status", "ticketId", "message", "requestId"}
              ELSE {"error"}]

\* the answers of the InfoGatheringAgent to SendTasks
TaskResponses ==
  {[err |-> TRUE, id |-> "", state |-> "", parts |-> << >>],
   [err |-> FALSE, id |-> "", state |-> "submitted", parts |-> << >>],
   [err |-> FALSE, id |-> "task-1", state |-> "working", parts |-> << >>],
   [err |-> FALSE, id |-> "task-1", state |-> "completed", parts |-> << >>],
   [err |-> FALSE, id |-> "task-1", state |-> "completed", parts |-> <<ProsePart>>]} \cup
  {[err |-> FALSE, id |-> "task-1", state |-> "completed", parts |-> <<TextPart(MarshalInfo(i))>>] :
     i \in SentInfos}

\* unnamed/part_003:731-763: the InfoGatheredTask of the first TextPart that
\* unmarshals with a TicketID
RECURSIVE ExtractResponse(_, _, _)
ExtractResponse(parts, i, info) ==
  IF i > Len(parts) THEN [err |-> TRUE, info |-> info]
  ELSE LET p == parts[i]
           u == IF p.kind = "text" /\ p.json THEN UnmarshalInfo(p.doc, info)
                ELSE [err |-> TRUE, info |-> info]
       IN IF ~u.err /\ u.info.TicketID # "" THEN [err |-> FALSE, info |-> u.info]
          ELSE ExtractResponse(parts, i + 1, u.info)

(***************************************************************************)
(* formatJiraComment.  A comment is the sequence of its entries, each the  *)
(* section it stands in, the field name and the value.  A range over a Go  *)
(* map visits the keys in an order the runtime chooses: the orders are     *)
(* arguments.                                                              *)
(***************************************************************************)
CategoryNames == {"Technical Analysis", "Business Impact", "Recommendations", "Additional Information"}

\* internal/agents/jiraretrieval.go:468-473
CategoryFields(category) ==
  CASE category = "Technical Analysis" -> <<"TechnicalAnalysis", "CodeReview", "ArchitectureImpact">>
    [] category = "Business Impact" -> <<"BusinessImpact", "UserImpact", "CustomerImpact">>
    [] category = "Recommendations" ->
         <<"RecommendedPriority", "RecommendedComponents", "RecommendedLabels", "NextSteps">>
    [] OTHER -> <<"References", "RelatedTickets", "Context">>

Entry(section, fields, k) == [section |-> section, key |-> k, value |-> fields[k]]

\* Uncategorized without the record of the processed fields
Uncategorized_All(fields) == {k \in DOMAIN fields : fields[k] # ""}

\* the fields the trailing loop finds neither processed nor empty
Uncategorized(fields) ==
  {k \in DOMAIN fields :
     /\ k # "Suggestion"
     /\ \A c \in CategoryNames : \A i \in DOMAIN CategoryFields(c) : CategoryFields(c)[i] # k
     /\ fields[k] # ""}

Footer == [section |-> "System Information", key |-> "Generated on", value |-> "time.Now()"]

\* internal/agents/jiraretrieval.go:455-517
formatJiraComment(fields, categoryOrder, otherOrder) ==
  LET Present(k) == k \in DOMAIN fields /\ fields[k] # ""
      Section(c) == LET names == SelectSeq(CategoryFields(c), Present)
                    IN [i \in DOMAIN names |-> Entry(c, fields, names[i])]
  IN (IF Present("Suggestion") THEN <<Entry("Recommendation", fields, "Suggestion")>> ELSE << >>)
     \o Section(categoryOrder[1]) \o Section(categoryOrder[2])
     \o Section(categoryOrder[3]) \o Section(categoryOrder[4])
     \o [i \in DOMAIN otherOrder |-> Entry("Other Analysis Details", fields, otherOrder[i])]
     \o <<Footer>>

\* internal/agents/jiraretrieval.go:199-210: the analysis lines, with
\* common.Capitalize on the keys (the summary text around them is copied as is)
formatJiraComment_1(fields, order) ==
  LET Capitalize(s) ==
        IF s = "" THEN ""
        ELSE LET c == SubSeq(s, 1, 1)
                 up == IF \E i \in 1..26 : SubSeq(LowerChars, i, i) = c
                       THEN LET n == CHOOSE i \in 1..26 : SubSeq(LowerChars, i, i) = c
                            IN SubSeq(UpperChars, n, n)
                       ELSE c
             IN up \o SubSeq(s, 2, Len(s))
  IN [i \in DOMAIN order |-> [section |-> "Analysis", key |-> Capitalize(order[i]), value |-> fields[order[i]]]]

\* every comment a call of formatJiraComment can return for these fields
Comments(v, fields) ==
  IF v = "JR1" THEN {formatJiraComment_1(fields, o) : o \in Orders(DOMAIN fields)}
  ELSE {formatJiraComment(fields, c, o) : c \in Orders(CategoryNames), o \in Orders(Uncategorized(fields))}

\* internal/agents/jiraretrieval.go:893-902
MockAnalysis(priority) ==
  [k \in {"Suggestion", "TechnicalAnalysis", "BusinessImpact", "RecommendedPriority", "NextSteps"} |->
     CASE k = "Suggestion" -> "This is a mock analysis"
       [] k = "TechnicalAnalysis" -> "Mock technical analysis"
       [] k = "BusinessImpact" -> "Mock business impact assessment"
       [] k = "RecommendedPriority" -> priority
       [] OTHER -> "Please review this ticket"]

(***************************************************************************)
(* One invocation of Process.                                              *)
(***************************************************************************)
VARIABLES
  variant,    \* which Process handler runs
  msg,        \* the message of the task
  llmClient,  \* whether a.llmClient is non-nil
  pc,         \* the step of the handler that runs next
  ret,        \* "running", "ok" (Process returned nil) or the returned error
  calls,      \* the calls made on the task handle and the collaborators
  task,       \* the decoded TicketAvailableTask
  info,       \* the InfoGatheredTask: decoded (JR) or built (IGC)
  analysis,   \* the AnalysisResult (IGA)
  collected,  \* the analysis as a string map (IGB, IGC)
  ticket,     \* the fetched JiraTicket (IGC)
  llm,        \* how the LLM analysis went: "none" (not called), "callerr",
              \* "err" (no object in the reply), "panic", "ok"
  result,     \* the message delivered with the completed status
  req,        \* the HTTP request of the webhook endpoint
  resp,       \* the HTTP response written by the webhook handler
  webhookReq, \* the WebhookRequest the handler parsed
  comment,    \* the body of the comment given to PostComment
  canceled,   \* 0, or the step during which ctx was canceled
  norm,       \* the level string under normalization
  other       \* the variables of a second invocation that is running
              \* concurrently in the same agent, while it is not scheduled

vars == <<variant, msg, llmClient, pc, ret, calls, task, info, analysis, collected, ticket, llm, result,
          req, resp, webhookReq, comment, canceled, norm, other>>

\* what an invocation keeps in its own parameters and local variables; the
\* fields of the agent (variant, llmClient) are the same for all of them
Locals ==
  [msg |-> msg, pc |-> pc, ret |-> ret, calls |-> calls, task |-> task, info |-> info,
   analysis |-> analysis, collected |-> collected, ticket |-> ticket, llm |-> llm, result |-> result,
   req |-> req, resp |-> resp, webhookReq |-> webhookReq, comment |-> comment, canceled |-> canceled]

\* "LIB" is a call of common.ExtractTicketData(message, &task) on its own
Variants == IGVariants \cup JRVariants \cup WHVariants \cup {"LIB"}

NoNorm == [fn |-> "", raw |-> "", level |-> "", applied |-> 0]

Init ==
  /\ variant \in Variants
  /\ msg \in IF variant \in IGVariants \cup {"LIB"} THEN IGMessages
            ELSE IF variant \in JRVariants THEN JRMessages
            ELSE {<< >>}
  /\ req \in IF variant \in WHVariants THEN Requests ELSE {NoRequest}
  /\ resp = NoResponse
  /\ webhookReq = EmptyWebhookRequest
  /\ comment = << >>
  /\ canceled = 0
  /\ norm = NoNorm
  /\ other = << >>
  /\ llmClient \in IF variant \in {"IGA", "IGB"} THEN BOOLEAN ELSE {FALSE}
  /\ pc = 1
  /\ ret = "running"
  /\ calls = << >>
  /\ task = EmptyTask
  /\ info = EmptyInfo
  /\ analysis = NoAnalysis
  /\ collected = NoDoc
  /\ ticket = NoTicket
  /\ llm = "none"
  /\ result = << >>

Cur == Steps(variant)[pc]

Running == ret = "running" /\ pc <= Len(Steps(variant))

Proceed(n) ==
  /\ pc' = pc + n
  /\ ret' = IF pc + n > Len(Steps(variant)) THEN "ok" ELSE "running"

Fail(e) == pc' = pc /\ ret' = e

Call(op, arg, ok) == calls' = Append(calls, [op |-> op, arg |-> arg, ok |-> ok])

\* the webhook handler writes the response when ProcessWebhook has returned
Answer == resp' = IF variant \in WHVariants /\ ret' # "running" THEN Respond(variant, IF ret' = "ok" THEN 200 ELSE 500) ELSE resp

\* the message of the completed status
ResultOf ==
  CASE variant = "IGA" ->
         <<TextPart(MarshalInfo([TicketID |-> task.TicketID,
                                 CollectedFields |-> CollectedOf(task, analysis),
                                 CommentURL |-> ""]))>>
    [] variant = "IGB" ->
         <<TextPart(MarshalInfo([TicketID |-> task.TicketID, CollectedFields |-> collected,
                                 CommentURL |-> ""]))>>
    [] variant = "IGC" -> <<TextPart(MarshalInfo(info))>>
    [] OTHER -> <<ProsePart>>

\* handle.UpdateStatus(state, message)
UpdateStatus ==
  /\ Running /\ Cur.op = "UpdateStatus"
  /\ \E ok \in BOOLEAN :
       /\ Call("UpdateStatus", Cur.arg, ok)
       /\ IF ok \/ ~Cur.fatal THEN Proceed(1) ELSE Fail(Cur.err)
       /\ result' = IF ok /\ Cur.arg = "completed" THEN ResultOf ELSE result
  /\ UNCHANGED <<other, req, resp, webhookReq, comment, canceled, norm, variant, msg, llmClient, task, info, analysis, collected, ticket, llm>>

\* a.extractTaskData(message, &task)
ExtractTaskData ==
  /\ Running /\ Cur.op = "extract"
  /\ \E r \in Decode(DecoderOf(variant), msg) :
       IF r.err THEN Fail(Cur.err) /\ task' = task
       ELSE Proceed(1) /\ task' = r.task
  /\ UNCHANGED <<other, req, resp, webhookReq, comment, canceled, norm, variant, msg, llmClient, calls, info, analysis, collected, ticket, llm, result>>

\* jiraretrieval.go:283-301: the search of a text part
FindTextPart ==
  /\ Running /\ Cur.op = "findPayload"
  /\ LET r == ParsePayload_JR2(msg)
     IN IF r.err \in {"empty message or no parts", "no text part found in message"}
        THEN Fail(r.err) ELSE Proceed(1)
  /\ UNCHANGED <<other, req, resp, webhookReq, comment, canceled, norm, variant, msg, llmClient, calls, task, info, analysis, collected, ticket, llm, result>>

\* common.ExtractInfoGatheredTask (JR1), json.Unmarshal of the payload (JR2)
ExtractInfo ==
  /\ Running /\ Cur.op = "extractInfo"
  /\ LET r == IF variant = "JR1"
              THEN ExtractInfoGatheredTask(msg, 1, EmptyInfo)
              ELSE [err |-> ParsePayload_JR2(msg).err # "", info |-> ParsePayload_JR2(msg).info]
     IN IF r.err THEN Fail(Cur.err) /\ info' = info
        ELSE Proceed(1) /\ info' = r.info
  /\ UNCHANGED <<other, req, resp, webhookReq, comment, canceled, norm, variant, msg, llmClient, calls, task, analysis, collected, ticket, llm, result>>

\* jiraClient.GetTicket(ticketID); jiraretrieval.go:121-129 goes on with a
\* ticket made of the key when the fetch failed
GetTicket ==
  /\ Running /\ Cur.op = "GetTicket"
  /\ \E ok \in BOOLEAN, t \in Tickets :
       /\ Call("GetTicket", IF variant \in WHVariants THEN webhookReq.TicketID ELSE task.TicketID, ok)
       /\ IF ok THEN Proceed(1) /\ ticket' = t
          ELSE IF Cur.fatal THEN Fail(Cur.err) /\ ticket' = ticket
          ELSE Proceed(1) /\ ticket' = ticket
  /\ Answer
  /\ UNCHANGED <<other, req, webhookReq, comment, canceled, norm, variant, msg, llmClient, task, info, analysis, collected, llm, result>>

\* a.analyzeTicketInfo(&task) of unnamed/part_002:313-339
AnalyzeTicketInfo_A ==
  /\ Running /\ Cur.op = "analyze" /\ variant = "IGA"
  /\ \E reply \in IF llmClient THEN Replies ELSE {LLMError} :
       \E r \in analyzeTicketInfo_A(llmClient, reply, task) :
         /\ llm' = IF ~llmClient THEN "none"
                   ELSE IF reply.err THEN "callerr"
                   ELSE analyzeWithLLM(reply).st
         /\ calls' = IF llmClient THEN Append(calls, [op |-> "Complete", arg |-> "analysis", ok |-> ~reply.err])
                     ELSE calls
         /\ IF r.st = "panic" THEN Fail("panic") /\ analysis' = analysis
            ELSE Proceed(1) /\ analysis' = r.result
  /\ UNCHANGED <<other, req, resp, webhookReq, comment, canceled, norm, variant, msg, llmClient, task, info, collected, ticket, result>>

\* a.analyzeTicketInfo(&task) of internal/agents/infogathering.go:670-695
AnalyzeTicketInfo_B ==
  /\ Running /\ Cur.op = "analyze" /\ variant = "IGB"
  /\ \E reply \in IF llmClient THEN Replies ELSE {LLMError} :
       LET r == analyzeTicketInfo_B(llmClient, reply)
       IN /\ llm' = IF ~llmClient THEN "none"
                    ELSE IF reply.err THEN "callerr"
                    ELSE r.st
          /\ calls' = IF llmClient THEN Append(calls, [op |-> "Complete", arg |-> "analysis", ok |-> ~reply.err])
                      ELSE calls
          /\ IF r.st = "ok" THEN Proceed(1) /\ collected' = r.result
             ELSE Fail(Cur.err) /\ collected' = collected
  /\ UNCHANGED <<other, req, resp, webhookReq, comment, canceled, norm, variant, msg, llmClient, task, info, analysis, ticket, result>>

\* a.analyzeTicket(ticket) of internal/agents/infogathering.go:201-236
AnalyzeTicket_C ==
  /\ Running /\ Cur.op = "analyze" /\ variant = "IGC"
  /\ collected' = analyzeTicket(ticket)
  /\ Proceed(1)
  /\ UNCHANGED <<other, req, resp, webhookReq, comment, canceled, norm, variant, msg, llmClient, calls, task, info, analysis, ticket, llm, result>>

\* a.generateSummary(&task, analysis) of internal/agents/infogathering.go:785-827
GenerateSummary ==
  /\ Running /\ Cur.op = "summary"
  /\ IF ~llmClient THEN Fail(Cur.err) /\ calls' = calls
     ELSE \E ok \in BOOLEAN :
            /\ Call("Complete", "summary", ok)
            /\ IF ok THEN Proceed(1) ELSE Fail(Cur.err)
  /\ UNCHANGED <<other, req, resp, webhookReq, comment, canceled, norm, variant, msg, llmClient, task, info, analysis, collected, ticket, llm, result>>

CommentURL == "https://jira/comment/1"

\* jiraClient.PostComment(ticketID, comment), in the JiraRetrievalAgent on
\* the comment formatJiraComment made of the InfoGatheredTask
PostComment ==
  /\ Running /\ Cur.op = "PostComment"
  /\ \E ok \in BOOLEAN :
       /\ Call("PostComment", IF variant = "IGC" THEN task.TicketID ELSE info.TicketID, ok)
       /\ CASE variant = "IGC" ->
                 IF ok THEN /\ Proceed(1)
                            /\ info' = [TicketID |-> task.TicketID, CollectedFields |-> collected,
                                        CommentURL |-> CommentURL]
                 ELSE Fail(Cur.err) /\ info' = info
            [] variant = "JR1" -> Proceed(1) /\ info' = info
            [] variant = "WH3" -> (IF ok THEN Proceed(1) ELSE Fail(Cur.err)) /\ info' = info
            [] OTHER ->
                 IF ok THEN Proceed(1) /\ info' = [info EXCEPT !.CommentURL = CommentURL]
                 ELSE Proceed(2) /\ info' = info
  /\ IF variant = "IGC" THEN comment' = comment
     ELSE \E c \in Comments(variant, info.CollectedFields) : comment' = c
  /\ Answer
  /\ UNCHANGED <<other, req, webhookReq, canceled, norm, variant, msg, llmClient, task, analysis, collected, ticket, llm, result>>

\* handle.AddArtifact(artifact)
AddArtifact ==
  /\ Running /\ Cur.op = "AddArtifact"
  /\ \E ok \in BOOLEAN :
       /\ Call("AddArtifact", IF variant \in {"IGA", "IGB"} THEN "analysis" ELSE "comment", ok)
       /\ IF ok \/ ~Cur.fatal THEN Proceed(1) ELSE Fail(Cur.err)
  /\ UNCHANGED <<other, req, resp, webhookReq, comment, canceled, norm, variant, msg, llmClient, task, info, analysis, collected, ticket, llm, result>>

\* the checks of handleWebhook / HandleWebhook on the request
HandleWebhook ==
  /\ Running /\ Cur.op = "validate"
  /\ LET c == Validate(variant, req)
     IN IF c.status # 0
        THEN Fail(Cur.err) /\ resp' = Respond(variant, c.status) /\ webhookReq' = webhookReq
        ELSE Proceed(1) /\ resp' = resp /\ webhookReq' = c.req
  /\ UNCHANGED <<other, comment, canceled, norm, variant, msg, llmClient, calls, task, info, analysis, collected,
                 ticket, llm, result, req>>

\* infoAgentClient.SendTasks(ctx, params) and what ProcessWebhook does with
\* the answer; the client gives up with an error when ctx is canceled
SendTasks ==
  /\ Running /\ Cur.op = "SendTasks"
  /\ \E r \in TaskResponses :
       /\ canceled = pc => r.err
       /\ Call("SendTasks", r.state, ~r.err)
       /\ CASE variant = "WH1" -> (IF r.err THEN Fail(Cur.err) ELSE Proceed(1)) /\ msg' = msg
            [] variant = "WH2" -> (IF r.err THEN Proceed(1) ELSE Proceed(2)) /\ msg' = msg
            [] OTHER ->
                 IF r.err THEN Fail(Cur.err) /\ msg' = msg
                 ELSE IF r.id = "" THEN Fail("received empty task ID from InfoGatheringAgent") /\ msg' = msg
                 ELSE IF r.state # "completed"
                      THEN Fail("task is not completed yet or no message in response") /\ msg' = msg
                 ELSE IF Len(r.parts) = 0
                      THEN Fail("task completed but no message parts found") /\ msg' = msg
                 ELSE Proceed(1) /\ msg' = r.parts
  /\ Answer
  /\ UNCHANGED <<other, req, webhookReq, comment, canceled, norm, variant, llmClient, task, info, analysis,
                 collected, ticket, llm, result>>

\* unnamed/part_003:731-766: the InfoGatheredTask of the response
ExtractInfoFromResponse ==
  /\ Running /\ Cur.op = "extractResponse"
  /\ LET r == ExtractResponse(msg, 1, EmptyInfo)
     IN IF r.err THEN Fail(Cur.err) /\ info' = info
        ELSE Proceed(1) /\ info' = r.info
  /\ Answer
  /\ UNCHANGED <<other, req, webhookReq, comment, canceled, norm, variant, msg, llmClient, calls, task, analysis,
                 collected, ticket, llm, result>>

\* internal/agents/jiraretrieval.go:876-930; priority is getTicketPriority of
\* the fetched ticket, post whether MOCK_POST_TO_JIRA is set
MockProcessInfoGathering ==
  /\ Running /\ Cur.op = "mock"
  /\ \E priority \in {"Unknown", "High"}, post \in BOOLEAN, ok \in BOOLEAN :
       /\ info' = [TicketID |-> webhookReq.TicketID, CollectedFields |-> MockAnalysis(priority),
                   CommentURL |-> ""]
       /\ \E c \in Comments(variant, MockAnalysis(priority)) : comment' = c
       /\ calls' = IF post THEN Append(calls, [op |-> "PostComment", arg |-> webhookReq.TicketID, ok |-> ok])
                   ELSE calls
  /\ Proceed(1)
  /\ Answer
  /\ UNCHANGED <<other, req, webhookReq, canceled, norm, variant, msg, llmClient, task, analysis, collected,
                 ticket, llm, result>>

\* the steps during which a collaborator is being called
InExternalCall ==
  \/ Cur.op \in {"GetTicket", "SendTasks", "PostComment"}
  \/ Cur.op \in {"analyze", "summary"} /\ variant \in {"IGA", "IGB"} /\ llmClient

\* the ambient context of the invocation is canceled during such a call
Cancel ==
  /\ Running /\ canceled = 0 /\ InExternalCall
  /\ canceled' = pc
  /\ UNCHANGED <<other, req, resp, webhookReq, comment, norm, variant, msg, llmClient, pc, ret, calls, task, info,
                 analysis, collected, ticket, llm, result>>

Next ==
  \/ HandleWebhook
  \/ SendTasks
  \/ ExtractInfoFromResponse
  \/ MockProcessInfoGathering
  \/ Cancel
  \/ UpdateStatus
  \/ ExtractTaskData
  \/ FindTextPart
  \/ ExtractInfo
  \/ GetTicket
  \/ AnalyzeTicketInfo_A
  \/ AnalyzeTicketInfo_B
  \/ AnalyzeTicket_C
  \/ GenerateSummary
  \/ PostComment
  \/ AddArtifact

Spec == Init /\ [][Next]_vars

(***************************************************************************)
(* The string functions of the LLM path on their own: a level string is   *)
(* normalized, and the result normalized again; a response text is handed  *)
(* to a JSON extractor.                                                    *)
(***************************************************************************)
MaxNormalize == 2

LevelInputs ==
  {"high", "critical", "severe", "important", "urgent", "medium", "moderate", "normal", "low", "minor",
   "trivial", "HIGH", "Critical", "Urgent", "Low", "", "asap", "blocker", " high", "P1"}

NormInit ==
  /\ \/ \E fn \in {"risk", "priority"}, s \in LevelInputs :
          norm = [fn |-> fn, raw |-> s, level |-> s, applied |-> 0]
     \/ \E fn \in {"extractJSON_A", "extractJSON_B", "ExtractJSON"}, t \in Texts(MaxReplyLen) :
          norm = [fn |-> fn, raw |-> t, level |-> "", applied |-> 0]
  /\ variant = "IGA" /\ msg = << >> /\ llmClient = TRUE /\ pc = 1 /\ ret = "running"
  /\ calls = << >> /\ task = EmptyTask /\ info = EmptyInfo /\ analysis = NoAnalysis
  /\ collected = NoDoc /\ ticket = NoTicket /\ llm = "none" /\ result = << >>
  /\ req = NoRequest /\ resp = NoResponse /\ webhookReq = EmptyWebhookRequest
  /\ comment = << >> /\ canceled = 0 /\ other = << >>

NormalizeRiskLevel ==
  /\ norm.fn = "risk" /\ norm.applied < MaxNormalize
  /\ norm' = [norm EXCEPT !.level = normalizeRiskLevel(norm.level), !.applied = @ + 1]
  /\ UNCHANGED <<other, variant, msg, llmClient, pc, ret, calls, task, info, analysis, collected, ticket, llm,
                 result, req, resp, webhookReq, comment, canceled>>

NormalizePriority ==
  /\ norm.fn = "priority" /\ norm.applied < MaxNormalize
  /\ norm' = [norm EXCEPT !.level = normalizePriority(norm.level), !.applied = @ + 1]
  /\ UNCHANGED <<other, variant, msg, llmClient, pc, ret, calls, task, info, analysis, collected, ticket, llm,
                 result, req, resp, webhookReq, comment, canceled>>

\* extractJSON(response) / common.ExtractJSON(text): llm is the outcome and
\* collected the object of the returned JSON text
ExtractJSONCall ==
  /\ norm.fn \in {"extractJSON_A", "extractJSON_B", "ExtractJSON"} /\ llm = "none"
  /\ LET r == CASE norm.fn = "extractJSON_A" -> extractJSON_A(norm.raw)
                 [] norm.fn = "extractJSON_B" -> extractJSON_B(norm.raw)
                 [] OTHER -> ExtractJSON(norm.raw)
     IN llm' = r.st /\ collected' = r.doc
  /\ UNCHANGED <<other, variant, msg, llmClient, pc, ret, calls, task, info, analysis, ticket, norm,
                 result, req, resp, webhookReq, comment, canceled>>

NormNext == NormalizeRiskLevel \/ NormalizePriority \/ ExtractJSONCall

NormSpec == NormInit /\ [][NormNext]_vars

(***************************************************************************)
(* Two invocations of one agent that run concurrently: the scheduler       *)
(* switches between them at any step.                                      *)
(***************************************************************************)
\* Switch with the decoded task kept in the agent instead of the invocation
Switch_SharedTask ==
  /\ other # << >>
  /\ other' = [Locals EXCEPT !.task = other.task]
  /\ msg' = other.msg /\ pc' = other.pc /\ ret' = other.ret /\ calls' = other.calls
  /\ task' = task /\ info' = other.info /\ analysis' = other.analysis
  /\ collected' = other.collected /\ ticket' = other.ticket /\ llm' = other.llm
  /\ result' = other.result /\ req' = other.req /\ resp' = other.resp
  /\ webhookReq' = other.webhookReq /\ comment' = other.comment /\ canceled' = other.canceled
  /\ UNCHANGED <<variant, llmClient, norm>>

\* the scheduler runs the other invocation
Switch ==
  /\ other # << >>
  /\ other' = Locals
  /\ msg' = other.msg /\ pc' = other.pc /\ ret' = other.ret /\ calls' = other.calls
  /\ task' = other.task /\ info' = other.info /\ analysis' = other.analysis
  /\ collected' = other.collected /\ ticket' = other.ticket /\ llm' = other.llm
  /\ result' = other.result /\ req' = other.req /\ resp' = other.resp
  /\ webhookReq' = other.webhookReq /\ comment' = other.comment /\ canceled' = other.canceled
  /\ UNCHANGED <<variant, llmClient, norm>>

\* two tasks for the InformationGatheringAgent of unnamed/part_002 (no LLM
\* client), or two webhooks for the handler of unnamed/part_003
ConcInit ==
  /\ variant \in {"IGA", "WH3"} /\ llmClient = FALSE
  /\ msg \in IF variant = "IGA"
              THEN {<<Encode("structured", t)>> : t \in {x \in SentTasks : x.TicketID # "" /\ x.Summary # ""}}
              ELSE {<< >>}
  /\ req \in IF variant = "WH3"
              THEN {r \in Requests : r.method = "POST" /\ r.body.ticketId # "" /\ r.ctype = "text/plain"}
              ELSE {NoRequest}
  /\ pc = 1 /\ ret = "running" /\ calls = << >> /\ task = EmptyTask /\ info = EmptyInfo
  /\ analysis = NoAnalysis /\ collected = NoDoc /\ ticket = NoTicket /\ llm = "none"
  /\ result = << >> /\ resp = NoResponse /\ webhookReq = EmptyWebhookRequest
  /\ comment = << >> /\ canceled = 0 /\ norm = NoNorm
  /\ \E m \in {<<Encode("structured", t)>> : t \in {x \in SentTasks : x.TicketID # "" /\ x.Summary # ""}},
        r \in {x \in Requests : x.method = "POST" /\ x.body.ticketId # "" /\ x.ctype = "text/plain"} :
       /\ IF variant = "IGA" THEN m # msg ELSE r # req
       /\ other = [Locals EXCEPT !.msg = IF variant = "IGA" THEN m ELSE << >>,
                                 !.req = IF variant = "IGA" THEN NoRequest ELSE r]

ConcNext ==
  \/ Switch
  \/ UpdateStatus
  \/ ExtractTaskData
  \/ AnalyzeTicketInfo_A
  \/ AddArtifact
  \/ HandleWebhook
  \/ GetTicket
  \/ SendTasks
  \/ ExtractInfoFromResponse
  \/ PostComment

ConcSpec == ConcInit /\ [][ConcNext]_vars

\* the webhook endpoint alone; a handler that has started runs on until it
\* has written the response
WebhookInit == Init /\ variant \in WHVariants

WebhookNext ==
  \/ HandleWebhook
  \/ GetTicket
  \/ SendTasks
  \/ ExtractInfoFromResponse
  \/ PostComment
  \/ MockProcessInfoGathering
  \/ Cancel

WebhookSpec == WebhookInit /\ [][WebhookNext]_vars /\ WF_vars(WebhookNext)

(***************************************************************************)
(* Properties of the status sequence and of the outcome of a run.          *)
(***************************************************************************)
IsStatus(c) == c.op = "UpdateStatus"

\* the status updates emitted so far, in order
Emitted == SelectSeq(calls, IsStatus)

EmittedStates == {Emitted[i].arg : i \in DOMAIN Emitted}

\* the completed update was accepted: the task is completed
Completed == \E i \in DOMAIN calls : calls[i] = [op |-> "UpdateStatus", arg |-> "completed", ok |-> TRUE]

Before(a, b) ==
  \E i, j \in DOMAIN Emitted : i < j /\ Emitted[i].arg = a /\ Emitted[j].arg = b

HasRun(op) == \E i \in 1..(pc - 1) : Steps(variant)[i].op = op

(* C1: in the sequence of status updates of a task no non-terminal state
   appears twice, and no update follows failed or completed. *)
C1_StatusSequenceMonotonic ==
  \A i, j \in DOMAIN Emitted :
    i < j => Emitted[i].arg \notin {"failed", "completed"} /\ Emitted[i].arg # Emitted[j].arg

C1_Witness ==
  variant = "IGA" /\ ret = "ok" /\ Len(Emitted) = 4 /\ Emitted[4].arg = "completed"

StageCalls == {"GetTicket", "Complete", "PostComment"}

StageFailed ==
  \/ \E i \in DOMAIN calls : calls[i].op \in StageCalls /\ ~calls[i].ok
  \/ llm \in {"callerr", "err", "panic"}
  \/ ret \in {"failed to extract task data", "invalid InfoGatheredTask", "unknown task payload"}

(* C2: when a pipeline stage (decode, ticket fetch, analysis, comment post)
   has failed, the invocation returns an error and the task never becomes
   completed. *)
C2_StageErrorFailsTask ==
  StageFailed => ret # "ok" /\ ~Completed

(* C3: success (the completed status, Process returning nil) is reported
   only for a run whose analysis and whose comment post succeeded. *)
C3_NoPartialSuccess ==
  (Completed \/ ret = "ok") =>
     /\ llm \notin {"callerr", "err"}
     /\ ~\E i \in DOMAIN calls : calls[i].op = "PostComment" /\ ~calls[i].ok

\* the tasks a message was encoded from
SentIn(m) ==
  {t \in SentTasks : \/ \E c \in {"text", "bytes"} : m = <<Carry(c, Marshal(t, V1Tags))>>
                     \/ \E sh \in Shapes : m = <<Encode(sh, t)>>}

(* C4: decoding succeeds only for a message that carries a non-empty
   TicketID and a non-empty Summary: the task handed to the stages after
   the decoding has both, the message it came from had both, and a task
   submitted without one of them does not become completed. *)
C4_OnlyValidTasksDownstream ==
  variant \in IGVariants =>
    /\ HasRun("extract") => Valid(task) /\ \A t \in SentIn(msg) : Valid(t)
    /\ (\E t \in SentIn(msg) : ~Valid(t)) => ~Completed

(* C5 as stated: every completed task has emitted processing, then
   analyzing, then posting_comment, before completed. *)
C5_Original ==
  variant \in IGVariants /\ Completed =>
    /\ Before("processing", "analyzing_ticket")
    /\ Before("analyzing_ticket", "posting_comment")
    /\ Before("posting_comment", "completed")

(* C5 amended: every completed task of the InformationGatheringAgent has
   emitted processing, then analyzing_ticket, before completed; only the
   handler that works on the Jira client emits posting_comment (after
   analyzing_ticket, with fetching_ticket_details before it), the handlers
   that summarize with the LLM emit no posting_comment. *)
C5_Amended ==
  variant \in IGVariants /\ Completed =>
    /\ Before("processing", "analyzing_ticket")
    /\ Before("analyzing_ticket", "completed")
    /\ IF variant = "IGC"
       THEN /\ Before("processing", "fetching_ticket_details")
            /\ Before("fetching_ticket_details", "analyzing_ticket")
            /\ Before("analyzing_ticket", "posting_comment")
            /\ Before("posting_comment", "completed")
       ELSE "posting_comment" \notin EmittedStates

C5_Witness ==
  variant = "IGB" /\ Completed /\ ret = "ok" /\ "posting_comment" \notin EmittedStates

StatusErrors == {"failed to update status", "failed to complete task", "status sink error"}

SinkFailedAt(i) == IsStatus(calls[i]) /\ ~calls[i].ok

(* C6 as stated: a failure of the status sink on any update does not abort
   the pipeline: the invocation never returns the sink's error. *)
C6_Original ==
  (\E i \in DOMAIN calls : SinkFailedAt(i)) => ret \notin StatusErrors

\* the updates whose error the handlers only log
BestEffort ==
  {<<"IGA", "generating_summary">>, <<"JR2", "processing_info">>, <<"JR2", "posting_comment">>}

(* C6 amended: a failure of the status sink is survived only on the
   generating_summary update of the InformationGatheringAgent and on the
   processing_info and posting_comment updates of the JiraRetrievalAgent:
   after it the run goes on.  A failure on any other update is the last
   thing the invocation does: it returns the status error, and it returns
   a status error for no other reason. *)
C6_Amended ==
  /\ \A i \in DOMAIN calls :
       SinkFailedAt(i) =>
         IF <<variant, calls[i].arg>> \in BestEffort
         THEN i = Len(calls) => ret = "running"
         ELSE i = Len(calls) /\ ret \in StatusErrors
  /\ ret \in StatusErrors =>
       /\ Len(calls) > 0
       /\ SinkFailedAt(Len(calls))
       /\ <<variant, calls[Len(calls)].arg>> \notin BestEffort

C6_Witness ==
  /\ variant = "JR2" /\ ret = "ok" /\ Completed
  /\ \E i \in DOMAIN calls : SinkFailedAt(i) /\ calls[i].arg = "posting_comment"

(* C7: after an LLM call error or a reply without a parsable {...} object
   the engine reports a failure and hands on no AnalysisResult, neither a
   partial nor a placeholder one. *)
C7_LLMFailureIsEngineFailure ==
  llm \in {"callerr", "err"} =>
     /\ ret = "failed to analyze ticket"
     /\ analysis = NoAnalysis
     /\ collected = NoDoc

(* C8: every AnalysisResult that leaves the engine (LLM path, heuristic
   path, after an LLM failure) has RiskLevel and Priority in high, medium,
   low. *)
C8_LevelsInRange ==
  variant = "IGA" /\ HasRun("analyze") =>
     analysis.RiskLevel \in Levels /\ analysis.Priority \in Levels

PlainTicket == [EmptyTask EXCEPT !.TicketID = "PROJ-1", !.Summary = "Quarterly report"]

AllCallsOk == \A i \in DOMAIN calls : calls[i].ok

(* C9: with no LLM client configured the engine analyses heuristically
   instead of failing: a valid ticket with no theme keyword in its summary
   and no priority metadata gets Priority medium, RiskLevel medium,
   KeyThemes [task], and its task ends completed. *)
C9_NoLLMUsesHeuristic ==
  (/\ variant \in {"IGA", "IGB"} /\ ~llmClient
   /\ task = PlainTicket /\ ret # "running" /\ AllCallsOk) =>
     /\ Completed
     /\ result = <<TextPart(MarshalInfo(
           [TicketID |-> "PROJ-1",
            CollectedFields |-> CollectedOf(PlainTicket,
               [KeyThemes |-> <<"task">>, RiskLevel |-> "medium", Priority |-> "medium",
                Suggestion |-> "Review this item and assign appropriate resources.",
                TechnicalAnalysis |-> "No detailed technical analysis available without LLM.",
                RecommendedPriority |-> "medium", LLMUsed |-> FALSE, Confidence |-> 5]),
            CommentURL |-> ""]))>>

(* C10: for a task t with non-empty TicketID and Summary, decoding the
   message the producer encodes for t gives t again, in each of the four
   wire shapes (structured part, aliased key-value document, string-encoded
   JSON, nested issue document). *)
C10_RoundTrip ==
  \A sh \in Shapes, t \in SentTasks :
    (/\ Valid(t) /\ msg = <<Encode(sh, t)>> /\ variant = "IGB"
     /\ (HasRun("extract") \/ ret = "failed to extract task data")) =>
       ret # "failed to extract task data" /\ task = t

(***************************************************************************)
(* Properties of the webhook endpoint.                                     *)
(***************************************************************************)
Acknowledged == variant \in WHVariants /\ resp.status = 200

\* the InfoGatheringAgent answered the task with a completed analysis that
\* the JiraRetrievalAgent read
AnalysisReturned ==
  /\ \E i \in DOMAIN calls : calls[i] = [op |-> "SendTasks", arg |-> "completed", ok |-> TRUE]
  /\ info.TicketID # ""

CommentPosted == \E i \in DOMAIN calls : calls[i].op = "PostComment" /\ calls[i].ok

(* C11: every webhook that the JiraRetrievalAgent answers as successfully
   processed (200) leads to the analysis of the InfoGatheringAgent being
   returned to it and to a comment being posted on the ticket. *)
C11_AcknowledgedLeadsToComment ==
  Acknowledged ~> (AnalysisReturned /\ CommentPosted)

\* the request as the handler decodes it: the normalized Jira payload in
\* jiraretrieval.go:94-116, the WebhookRequest document in the others
Decoded ==
  IF variant = "WH1" THEN TransformJiraWebhook(req.body) ELSE UnmarshalWebhookRequest(req.body)

\* the status the webhook endpoint owes a request that fails a check, 0 for
\* a request that passes them all
Owed ==
  IF req.method # "POST" THEN 405
  ELSE IF ~Contains(req.ctype, "application/json") THEN 415
  ELSE IF Decoded.err THEN 400
  ELSE IF Decoded.req.TicketID = "" \/ Decoded.req.Event = "" THEN 400
  ELSE 0

Answered == variant \in WHVariants /\ resp.status # 0

(* C12: the webhook endpoint answers a non-POST request with 405, a content
   type that is not JSON with 415, an empty or unparsable body with 400 and
   a missing ticketId or event with 400, each without any downstream call;
   only a request that passes all these checks is answered 200, with a body
   of status, ticketId, message and requestId. *)
C12_WebhookValidation ==
  Answered =>
    /\ Owed # 0 => resp.status = Owed /\ calls = << >>
    /\ resp.status = 200 => Owed = 0 /\ resp.keys = {"status", "ticketId", "message", "requestId"}

\* a well-formed POST of a Jira payload from which no TicketID comes out
VendorWithoutTicket ==
  /\ variant \in WHVariants
  /\ req.method = "POST" /\ Contains(req.ctype, "application/json")
  /\ req.body.kind = "json" /\ req.body.webhookEvent # ""
  /\ Decoded.req.TicketID = ""

(* C13: a Jira-shaped notification from which no TicketID can be extracted
   is answered 400 and never reaches the ticket fetch or the send to the
   InfoGatheringAgent. *)
C13_MissingTicketRejected ==
  VendorWithoutTicket => calls = << >> /\ (resp.status # 0 => resp.status = 400)

(***************************************************************************)
(* Properties of the comment.                                              *)
(***************************************************************************)
\* formatJiraComment of jiraretrieval.go:455-517 has rendered the
\* CollectedFields of info
Rendered == variant \in {"JR2", "WH2", "WH3"} /\ comment # << >>

NonEmpty(fields) == {k \in DOMAIN fields : fields[k] # ""}

\* the entries of the comment that stand in one of the sections
EntriesIn(sections) == {i \in DOMAIN comment : comment[i].section \in sections}

\* every non-empty field is referenced by exactly one entry of the
\* sections, and the sections hold nothing else
ReferencedOnce(sections) ==
  /\ \A k \in NonEmpty(info.CollectedFields) :
       Cardinality({i \in EntriesIn(sections) : comment[i].key = k}) = 1
  /\ Cardinality(EntriesIn(sections)) = Cardinality(NonEmpty(info.CollectedFields))

(* C14 as stated: for an analysis map with N non-empty entries the
   categorized sections and the Other Analysis Details section of the
   comment together reference exactly N entries, each entry once. *)
C14_Original ==
  Rendered => ReferencedOnce(CategoryNames \cup {"Other Analysis Details"})

(* C14 amended: the suggestion block, the categorized sections and the
   Other Analysis Details section together reference exactly the N
   non-empty entries of the map, each once; the Suggestion entry is
   referenced by the suggestion block, not by a section. *)
C14_Amended ==
  Rendered => ReferencedOnce(CategoryNames \cup {"Other Analysis Details", "Recommendation"})

\* a comment rendered from a map with a suggestion, categorized fields,
\* uncategorized fields and an empty entry
C14_Witness ==
  /\ Rendered
  /\ {"Suggestion", "TechnicalAnalysis", "RiskLevel", "KeyThemes"} \subseteq NonEmpty(info.CollectedFields)
  /\ "Priority" \in DOMAIN info.CollectedFields /\ info.CollectedFields["Priority"] = ""
  /\ Cardinality(EntriesIn({"Other Analysis Details"})) = 2

SectionRank(section) ==
  CASE section \in {"Recommendation", "Analysis"} -> 0
    [] section = "Technical Analysis" -> 1
    [] section = "Business Impact" -> 2
    [] section = "Recommendations" -> 3
    [] section = "Additional Information" -> 4
    [] section = "Other Analysis Details" -> 5
    [] OTHER -> 6

(* C15: formatJiraComment is deterministic: the same input always gives the
   same comment, with the suggestion block first and the sections in the
   order Technical Analysis, Business Impact, Recommendations, Additional
   Information, Other Analysis Details. *)
C15_Deterministic ==
  comment # << >> =>
    /\ Comments(variant, info.CollectedFields) = {comment}
    /\ \A i, j \in DOMAIN comment :
         i < j => SectionRank(comment[i].section) <= SectionRank(comment[j].section)

(***************************************************************************)
(* Properties of the normalizers.                                          *)
(***************************************************************************)
\* the keywords of the buckets of a normalizer
Keywords(fn) ==
  {"high", "critical", "important", "medium", "moderate", "normal", "low", "minor", "trivial"}
    \cup (IF fn = "risk" THEN {"severe"} ELSE {"urgent"})

(* C16: risk normalization and priority normalization are total and
   idempotent: every string is mapped to one of high, medium, low; a string
   that (lower-cased) is in no keyword bucket is mapped to medium; and
   normalizing a normalized value gives the value back. *)
C16_NormalizeTotalIdempotent ==
  norm.applied >= 1 =>
    /\ norm.level \in Levels
    /\ ToLower(norm.raw) \notin Keywords(norm.fn) => norm.level = "medium"
    /\ norm.level = IF norm.fn = "risk" THEN normalizeRiskLevel(norm.raw) ELSE normalizePriority(norm.raw)

\* an input outside the buckets, normalized twice
C16_Witness ==
  norm.fn = "risk" /\ norm.raw = "asap" /\ norm.applied = 2 /\ norm.level = "medium"

(***************************************************************************)
(* Properties of TransformJiraWebhook.                                     *)
(***************************************************************************)
\* handleWebhook has normalized the Jira payload of the request
Normalized == variant = "WH1" /\ pc > 1

ItemFields == {req.body.items[i].field : i \in DOMAIN req.body.items}

(* C17 as stated: the TicketID of the normalized event equals the issue key
   and its Changes map has exactly as many entries as the changelog has
   items. *)
C17_Original ==
  Normalized =>
    /\ webhookReq.TicketID = req.body.issueKey
    /\ Cardinality(DOMAIN webhookReq.Changes) = Len(req.body.items)

(* C17 amended: the TicketID of the normalized event equals the issue key,
   and its Changes map has one entry for each distinct field name of the
   changelog items, holding the new value of the last item of that field;
   it has as many entries as the changelog has items when no field name
   occurs twice. *)
C17_Amended ==
  Normalized =>
    /\ webhookReq.TicketID = req.body.issueKey
    /\ DOMAIN webhookReq.Changes = ItemFields
    /\ \A i \in DOMAIN req.body.items :
         (\A j \in DOMAIN req.body.items : j > i => req.body.items[j].field # req.body.items[i].field)
           => webhookReq.Changes[req.body.items[i].field] = req.body.items[i].toString
    /\ Cardinality(ItemFields) = Len(req.body.items)
         => Cardinality(DOMAIN webhookReq.Changes) = Len(req.body.items)

\* a payload whose changelog changes the same field twice, normalized
C17_Witness ==
  /\ Normalized /\ webhookReq.TicketID = "PROJ-1"
  /\ Len(req.body.items) = 2 /\ Cardinality(ItemFields) = 1
  /\ webhookReq.Changes = One("summary", "Reverted")

(***************************************************************************)
(* Cancellation, retries and what invocations share.                       *)
(***************************************************************************)
(* C18: when the context of an invocation is canceled while an external
   call (LLM request, ticket fetch, comment post, send to the peer) is in
   progress, the invocation does not go on to success: it never returns
   nil and the task never becomes completed. *)
C18_CancelFailsTask ==
  canceled # 0 => ret # "ok" /\ ~Completed

\* what an invocation holds comes from its own input and from the answers
\* to its own calls: the decoded task from its message, the parsed request
\* from its HTTP request, the calls and the result from these
OwnData(r) ==
  /\ r.task = EmptyTask \/ \E d \in Decode(DecoderOf(variant), r.msg) : ~d.err /\ d.task = r.task
  /\ r.webhookReq \in {EmptyWebhookRequest, Validate(variant, r.req).req}
  /\ \A i \in DOMAIN r.calls :
       /\ r.calls[i].op = "GetTicket" => r.calls[i].arg = r.req.body.ticketId
       /\ r.calls[i].op = "PostComment" =>
            r.info.TicketID = r.calls[i].arg /\ ~ExtractResponse(r.msg, 1, EmptyInfo).err
                                             /\ r.info = ExtractResponse(r.msg, 1, EmptyInfo).info
  /\ r.result # << >> =>
       \E d \in Decode(DecoderOf(variant), r.msg) :
         /\ ~d.err
         /\ r.result[1].doc["ticketId"] = Str(d.task.TicketID)
         /\ r.result[1].doc["collectedFields"].o["Summary"] = Str(d.task.Summary)

(* C19: concurrent invocations share no mutable state: whatever the
   interleaving of their steps, what each invocation decodes, calls and
   returns is determined by its own input and the answers of its own
   collaborators. *)
C19_InvocationsIndependent ==
  other # << >> => OwnData(Locals) /\ OwnData(other)

\* both invocations have finished, each with the result of its own task
C19_Witness ==
  /\ other # << >> /\ variant = "IGA"
  /\ result # << >> /\ other.result # << >>
  /\ result # other.result

CollaboratorOps == {"GetTicket", "Complete", "PostComment", "SendTasks"}

\* how often the invocation has called the collaborator for that purpose
Issued(op, arg) == Cardinality({i \in DOMAIN calls : calls[i].op = op /\ calls[i].arg = arg})

(* C20: no stage is retried within an invocation: the ticket fetch, the
   comment post and the send to the peer are each issued at most once, and
   the LLM completion at most once by each stage that uses it (analysis,
   summary), also after the call has failed. *)
C20_NoRetry ==
  \A i, j \in DOMAIN calls :
    i < j /\ calls[i].op \in CollaboratorOps /\ calls[i].op = calls[j].op
      => calls[i].op = "Complete" /\ calls[i].arg # calls[j].arg

\* the comment post failed and ProcessWebhook returned without another try
C20_Witness ==
  /\ variant = "WH3" /\ ret = "failed to post comment to Jira"
  /\ Issued("PostComment", info.TicketID) = 1
  /\ calls[Len(calls)] = [op |-> "PostComment", arg |-> info.TicketID, ok |-> FALSE]

(***************************************************************************)
(* C21.  Every error that Process returns names the stage in which it      *)
(* originated: decode, ticket fetch, analysis, summary, comment post,      *)
(* status update or result encoding.                                       *)
(***************************************************************************)
\* the stage that the text of a returned error names, "" when it names none
StageOf(e) ==
  CASE e \in {"failed to extract task data", "invalid InfoGatheredTask", "unknown task payload",
              "empty message or no parts", "no text part found in message"} -> "decode"
    [] e = "failed to fetch ticket details" -> "ticket fetch"
    [] e = "failed to analyze ticket" -> "analysis"
    [] e = "failed to generate summary" -> "summary"
    [] e = "failed to post comment" -> "comment post"
    [] e \in {"failed to update status", "failed to complete task"} -> "status update"
    [] e \in {"failed to record artifact", "failed to marshal info-gathered task"} -> "result encoding"
    [] OTHER -> ""

\* C21: an error returned by a Process handler identifies its stage
C21_ErrorNamesStage ==
  (variant \in IGVariants \cup JRVariants /\ ret \notin {"running", "ok", "panic"}) => StageOf(ret) # ""

(***************************************************************************)
(* Properties of the task decoding (extractTaskData of                     *)
(* infogathering.go:504-577 and common.ExtractTicketData).                 *)
(***************************************************************************)
DecodeErrors == {"failed to extract task data", "could not extract ticket data from message"}

DecodeFailed == variant \in {"IGB", "LIB"} /\ ret \in DecodeErrors

DecodeSucceeded == variant \in {"IGB", "LIB"} /\ HasRun("extract")

\* the part holds a JSON object (as text, bytes, a map or a struct)
CarriesObject(p) == p.json /\ p.dtype # "string"

\* the identity and the summary that each of the four strategies reads from
\* one part, in the order direct structural decode, alias key-value decode,
\* unwrap of a string-encoded document, nested issue shape
StrategyResults(p) ==
  LET none   == [TicketID |-> "", Summary |-> ""]
      u      == Unmarshal(p.doc, EmptyTask, V2Tags)
      issue  == SubObj(p.doc, "issue")
      direct == IF CarriesObject(p) /\ ~u.err
                THEN [TicketID |-> u.task.TicketID, Summary |-> u.task.Summary] ELSE none
      alias  == IF CarriesObject(p)
                THEN [TicketID |-> GetStringValue(p.doc, <<"ticketId", "ticket_id", "id">>).v,
                      Summary  |-> GetStringValue(p.doc, <<"summary", "title", "name">>).v]
                ELSE none
      unwrap == IF p.json /\ p.dtype = "string" /\ ~u.err
                THEN [TicketID |-> u.task.TicketID, Summary |-> u.task.Summary] ELSE none
      legacy == IF CarriesObject(p)
                THEN [TicketID |-> GetStringValue(issue, <<"id", "key">>).v,
                      Summary  |-> GetStringValue(SubObj(issue, "fields"), <<"summary">>).v]
                ELSE none
  IN <<direct, alias, unwrap, legacy>>

\* <<part, strategy>> of the first strategy of the first part that yields a
\* non-empty TicketID and Summary; << >> when there is none
FirstYield(parts) ==
  LET ok == {q \in (1..Len(parts)) \X (1..4) : Valid(StrategyResults(parts[q[1]])[q[2]])}
  IN IF ok = {} THEN << >>
     ELSE CHOOSE q \in ok : \A r \in ok : q[1] < r[1] \/ (q[1] = r[1] /\ q[2] <= r[2])

(* C22: the strategies are tried in the order direct structural decode,
   alias key-value decode, one-level unwrap of string-encoded JSON, nested
   issue shape, and the decoding returns the task of the first strategy that
   yields a non-empty TicketID and Summary: when the decoding has ended, it
   has succeeded exactly if some strategy yields both, and the task then
   has the TicketID and Summary of the first such strategy. *)
C22_FirstStrategyWins ==
  LET q == FirstYield(msg)
  IN /\ DecodeFailed => q = << >>
     /\ DecodeSucceeded =>
          /\ q # << >>
          /\ task.TicketID = StrategyResults(msg[q[1]])[q[2]].TicketID
          /\ task.Summary = StrategyResults(msg[q[1]])[q[2]].Summary

\* the key-value decode runs on the part: the direct decode of its object did
\* not yield a TicketID and a Summary (infogathering.go:527-546 and 553-572
\* look at []byte data and at text only)
KeyValueDecoded(p) ==
  /\ CarriesObject(p)
  /\ variant = "LIB" \/ p.kind = "text" \/ p.dtype = "bytes"
  /\ ~Valid(StrategyResults(p)[1])
  /\ Valid(StrategyResults(p)[2])

(* C23: in the key-value decode the TicketID is the value of the first of
   ticketId, ticket_id, id that holds a non-empty value, the Summary that of
   the first of summary, title, name, and the Description that of the first
   of description, desc, content, body. *)
C23_AliasLists ==
  (/\ variant \in {"IGB", "LIB"} /\ Len(msg) = 1 /\ KeyValueDecoded(msg[1])
   /\ (DecodeFailed \/ DecodeSucceeded)) =>
     /\ DecodeSucceeded
     /\ task.TicketID = GetStringValue(msg[1].doc, <<"ticketId", "ticket_id", "id">>).v
     /\ task.Summary = GetStringValue(msg[1].doc, <<"summary", "title", "name">>).v
     /\ task.Description = GetStringValue(msg[1].doc, <<"description", "desc", "content", "body">>).v

\* the text of the error that the decoder of handler v returns for parts
\* (infogathering.go:508-510 and 576, data.go:15-17 and 78, infogathering.go:198)
DecodeErrorText(v, parts) ==
  CASE v = "IGB" -> IF Len(parts) = 0 THEN "message has no parts"
                    ELSE "failed to extract task data from message parts"
    [] v = "LIB" -> IF Len(parts) = 0 THEN "message has no parts"
                    ELSE "could not extract ticket data from message"
    [] OTHER     -> "no valid ticket-available task data found in message"

\* the kinds of the parts of a message, in order
PartKinds(parts) == [i \in 1..Len(parts) |-> parts[i].dtype]

(* C24: when every strategy fails on every part, the decoding returns an
   error, and the error identifies the parts that were examined: two
   messages whose parts differ in number or kind are not answered with the
   same error text. *)
C24_ErrorNamesParts ==
  (variant \in {"IGB", "IGC", "LIB"} /\ FirstYield(msg) = << >>) =>
     /\ ~HasRun("extract")
     /\ ret \in DecodeErrors =>
          \A m \in IGMessages :
            (/\ PartKinds(m) # PartKinds(msg)
             /\ \E d \in Decode(DecoderOf(variant), m) : d.err) =>
               DecodeErrorText(variant, m) # DecodeErrorText(variant, msg)

(* C29: the task of a successful decode holds only values of the part that
   succeeded: it is the task that decoding this part alone, into a fresh
   task, gives; nothing that the attempts on the parts before it wrote is
   left in it. *)
C29_NoCarryOver ==
  DecodeSucceeded =>
    \E i \in 1..Len(msg) :
      /\ \A j \in 1..(i - 1) : \A d \in Decode(DecoderOf(variant), <<msg[j]>>) : d.err
      /\ \E d \in Decode(DecoderOf(variant), <<msg[i]>>) : ~d.err /\ d.task = task

(***************************************************************************)
(* Properties of the JSON extraction.                                      *)
(***************************************************************************)
Extracted == norm.fn \in {"extractJSON_A", "extractJSON_B", "ExtractJSON"} /\ llm # "none"

\* the number of tokens c among text[a..b]
RECURSIVE Count(_, _, _, _)
Count(text, a, b, c) ==
  IF a > b THEN 0 ELSE (IF text[a].c = c THEN 1 ELSE 0) + Count(text, a + 1, b, c)

\* the first balanced span: from the first { to the } that closes it
\* (<< >> when there is no {, or the first { is not closed)
FirstBalanced(text) ==
  LET start == Index(text, "{")
      ends  == {e \in start..Len(text) : Count(text, start, e, "{") = Count(text, start, e, "}")}
  IN IF start = 0 \/ ends = {} THEN << >>
     ELSE SubSeq(text, start, CHOOSE e \in ends : \A x \in ends : e <= x)

(* C25: the extractor returns the first balanced {...} span of the
   response, the text from the first { to the } that closes it, whatever
   follows the span, and it returns it only if the span is valid JSON:
   it succeeds exactly if that span is a JSON object, and then with it. *)
C25_FirstBalancedSpan ==
  Extracted =>
    LET span == FirstBalanced(norm.raw)
    IN IF span # << >> /\ ParseObject(span).ok
       THEN llm = "ok" /\ collected = ParseObject(span).doc
       ELSE llm = "err"

(***************************************************************************)
(* Properties of the heuristic analysis (performBasicAnalysis).            *)
(***************************************************************************)
\* the analysis was made without an LLM client
Heuristic == variant = "IGA" /\ ~llmClient /\ HasRun("analyze")

\* the priority that the heuristic reads: the lower-cased metadata value,
\* medium without one
MetadataPriority ==
  IF "priority" \in DOMAIN task.Metadata THEN ToLower(task.Metadata["priority"]) ELSE "medium"

(* C26 as stated: the heuristic reads the Priority from the metadata
   (medium by default) and its RiskLevel is the one that the normalizer of
   the LLM path, normalizeRiskLevel, assigns to that priority. *)
C26_Original ==
  Heuristic =>
    /\ analysis.Priority = MetadataPriority
    /\ analysis.RiskLevel = normalizeRiskLevel(analysis.Priority)

(* C26 amended: the heuristic reads the Priority from the metadata
   (lower-cased, medium by default); its RiskLevel is high for a priority
   that contains high, critical, urgent or important, medium for one that
   contains medium, normal or moderate, and low for every other priority.
   It is the risk of normalizeRiskLevel for the priorities high, critical,
   important, medium, normal, moderate, low, minor and trivial, not for
   urgent (high here, medium there) nor for a priority in no bucket (low
   here, medium there). *)
C26_Amended ==
  Heuristic =>
    LET p    == analysis.Priority
        has(ws) == \E w \in ws : Contains(p, w)
    IN /\ p = MetadataPriority
       /\ analysis.RiskLevel \in Levels
       /\ analysis.RiskLevel = "high" <=> has({"high", "critical", "urgent", "important"})
       /\ analysis.RiskLevel = "medium" <=>
            (has({"medium", "normal", "moderate"}) /\ ~has({"high", "critical", "urgent", "important"}))
       /\ p \in {"high", "critical", "important", "medium", "normal", "moderate", "low", "minor", "trivial"} =>
            analysis.RiskLevel = normalizeRiskLevel(p)
       /\ p = "urgent" => analysis.RiskLevel = "high" /\ normalizeRiskLevel(p) = "medium"

\* a priority in no bucket: low for the heuristic, medium for the normalizer
C26_Witness ==
  /\ Heuristic /\ analysis.Priority = "blocker" /\ analysis.RiskLevel = "low"
  /\ normalizeRiskLevel(analysis.Priority) = "medium"

(***************************************************************************)
(* Properties of ProcessWebhook.                                           *)
(***************************************************************************)
\* the InfoGatheringAgent could not be reached: SendTasks returned an error
SendFailed == \E i \in DOMAIN calls : calls[i].op = "SendTasks" /\ ~calls[i].ok

\* MOCK_POST_TO_JIRA is set: the locally made comment is posted
MockOptIn == variant = "WH2" /\ \E i \in DOMAIN calls : calls[i].op = "PostComment"

\* a locally fabricated analysis took the place of the peer's
MockSubstituted == \E pr \in {"Unknown", "High"} : info.CollectedFields = MockAnalysis(pr)

(* C27: when the InfoGatheringAgent is unreachable, the webhook processing
   substitutes a mock analysis only if the opt-in is set; without it the
   send failure is reported to the webhook caller, who gets no success
   answer. *)
C27_MockOnlyOnOptIn ==
  (variant \in WHVariants /\ SendFailed /\ ret # "running" /\ ~MockOptIn) =>
     ~MockSubstituted /\ ret # "ok" /\ resp.status # 200

\* the ticket fetch of the webhook processing failed
FetchFailed ==
  variant \in WHVariants /\ \E i \in DOMAIN calls : calls[i].op = "GetTicket" /\ ~calls[i].ok

TaskSent == \E i \in DOMAIN calls : calls[i].op = "SendTasks"

(* C28 as stated: when the ticket fetch fails during the webhook
   processing, the request fails and no task is sent to the
   InformationGatheringAgent. *)
C28_Original ==
  FetchFailed => ~TaskSent /\ ret # "ok" /\ resp.status # 200

(* C28 amended: in the ProcessWebhook of jiraretrieval.go:781-873 and of
   part_003:617-783 a failed ticket fetch ends the processing: it returns
   "failed to get ticket from Jira", the request is answered 500 and no
   task is sent.  The ProcessWebhook of jiraretrieval.go:119-157 goes on
   with a ticket made of the key: the task is sent, and the request fails
   only if the sending does. *)
C28_Amended ==
  FetchFailed =>
    IF variant = "WH1"
    THEN /\ ret # "running" => TaskSent
         /\ (ret = "ok" /\ resp.status = 200) <=>
              \E i \in DOMAIN calls : calls[i].op = "SendTasks" /\ calls[i].ok
    ELSE /\ ~TaskSent
         /\ ret = "failed to get ticket from Jira"
         /\ resp.status = 500

\* the fetch failed, the task was sent all the same and the caller got 200
C28_Witness ==
  FetchFailed /\ variant = "WH1" /\ TaskSent /\ ret = "ok" /\ resp.status = 200

(***************************************************************************)
(* Properties of the event mapping of TransformJiraWebhook.                *)
(***************************************************************************)
EventTable ==
  [e \in {"jira:issue_created", "jira:issue_updated", "jira:issue_commented", "jira:issue_deleted"} |->
     CASE e = "jira:issue_created" -> "created"
       [] e = "jira:issue_updated" -> "updated"
       [] e = "jira:issue_commented" -> "commented"
       [] OTHER -> "deleted"]

\* the position of the first colon of e
FirstColon(e) ==
  CHOOSE i \in 1..Len(e) : SubSeq(e, i, i) = ":" /\ ~Contains(SubSeq(e, 1, i - 1), ":")

(* C30 as stated: the event mapping never fails; a raw event type of the
   table maps to its simplified value, another one with a colon to the
   text after the colon, any other one to itself. *)
C30_Original ==
  Normalized =>
    LET e == req.body.webhookEvent
    IN webhookReq.Event =
         IF e \in DOMAIN EventTable THEN EventTable[e]
         ELSE IF Contains(e, ":") THEN SubSeq(e, FirstColon(e) + 1, Len(e))
         ELSE e

(* C30 amended: the event mapping never fails; a raw event type of the
   table maps to its simplified value, another one with a colon to the
   text between its first colon and its second colon (or its end, with one
   colon only), any other one to itself. *)
C30_Amended ==
  Normalized =>
    LET e == req.body.webhookEvent
        r == webhookReq.Event
    IN IF e \in DOMAIN EventTable THEN r = EventTable[e]
       ELSE IF Contains(e, ":")
            THEN /\ ~Contains(r, ":")
                 /\ \/ e = SubSeq(e, 1, FirstColon(e)) \o r
                    \/ \E rest \in {SubSeq(e, j, Len(e)) : j \in 1..Len(e)} :
                         e = SubSeq(e, 1, FirstColon(e)) \o r \o ":" \o rest
                    \/ e = SubSeq(e, 1, FirstColon(e)) \o r \o ":"
            ELSE r = e

\* a raw event type with two colons: only the middle part is kept
C30_Witness ==
  Normalized /\ req.body.webhookEvent = "sprint:started:late" /\ webhookReq.Event = "started"

====
